---- MODULE Spec2Model ----
(***************************************************************************)
(* Frame-transfer and buffer-lifecycle engine of the camera-to-HDMI chain. *)
(*                                                                         *)
(*   - the copy-slot pool of the display programs (acquire_free_slot,      *)
(*     release_slot_ticket in ARM/fpga_lpr_display.c and its siblings);    *)
(*   - the chunked DMA transfer of the PCIe driver                         *)
(*     (fpga_dma_perform_transfer);                                        *)
(*   - the inference mailbox and the shutdown of ARM/fpga_lpr_display.c    *)
(*     (push_latest_to_infer, infer_thread_main, main, cleanup);           *)
(*   - the completion poll loop of one DMA chunk;                          *)
(*   - the capture loop of the display programs and the renderer.          *)
(*                                                                         *)
(* Each component has its own specification over a shared variable list;   *)
(* the variables of the other components stay at their initial value.      *)
(***************************************************************************)
EXTENDS Integers, Naturals, Sequences, FiniteSets, TLC

(***************************************************************************)
(* Bounds of the model                                                     *)
(***************************************************************************)
\* largest pool capacity explored (the programs accept up to MAX_COPY_BUFFERS)
MaxSlots == 2
\* number of acquire_free_slot calls explored in one behaviour
MaxAcquires == 3
\* granularity of the monotonic clock, in microseconds
TickUs == 10000
\* number of clock ticks explored
MaxTicks == 6

\* largest distance of the DMA start address from a 4 KiB boundary explored
MaxStartOffset == 4
\* largest distance of the transfer size from a multiple of 4 KiB explored
MaxSizeSlack == 5
\* largest whole number of 4 KiB pages in the small transfer sizes explored
MaxPages == 2
\* number of frames the capture loop captures in one behaviour
MaxFrames == 3
\* number of passes of the completion poll loop explored for one chunk
MaxPolls == 7
\* largest chunk timeout explored, in timer ticks
MaxTimeoutJiffies == 2
\* processes calling the READ_FRAME ioctl at once
MaxCallers == 2
\* calls that ask for the default frame size
MaxDefaultCalls == 1

(***************************************************************************)
(* Program constants                                                       *)
(***************************************************************************)
MIN_COPY_BUFFERS == 2
\* the re-check period of the wait in acquire_free_slot, in microseconds
WAKE_PERIOD_US == 20000
\* microseconds per millisecond (timeout_ms * 1000LL)
US_PER_MS == 1000

\* the 4 KiB boundary a chunk must not cross (0x1000)
BOUNDARY == 4096
\* cmd_reg[9:0]: length in DWORDs minus 1 (0x3FF)
DMA_CMD_LEN_MASK == 1023
\* cmd_reg[16]: 64-bit address mode
DMA_CMD_64BIT_ADDR == 2 ^ 16
\* cmd_reg[24]: write (MWR)
DMA_CMD_WRITE == 2 ^ 24
DMA_MAX_LEN_DWORDS == 1024

DMA_MAX_LEN_BYTES_Half == (DMA_MAX_LEN_DWORDS \div 2) * 4

DMA_MAX_LEN_BYTES == DMA_MAX_LEN_DWORDS * 4
FPGA_FRAME_WIDTH == 1280
FPGA_FRAME_HEIGHT == 720
FPGA_FRAME_BPP_BGR565 == 2
\* one 720p RGB565 frame: 1,843,200 bytes
FPGA_FRAME_SIZE_BGR565 == FPGA_FRAME_WIDTH * FPGA_FRAME_HEIGHT * FPGA_FRAME_BPP_BGR565

\* sizeof(u32), the size of one sentinel word
SENTINEL_BYTES == 4
\* the offset standing for chunk_tail1 == NULL
NullTail == 0 - 1000000
\* dev->dma_buf_size = PAGE_ALIGN(FPGA_FRAME_MAX_SIZE), the BGRX8888 frame
FPGA_FRAME_BPP_BGRX8888 == 4
FPGA_FRAME_MAX_SIZE == FPGA_FRAME_WIDTH * FPGA_FRAME_HEIGHT * FPGA_FRAME_BPP_BGRX8888
DMA_BUF_SIZE == ((FPGA_FRAME_MAX_SIZE + BOUNDARY - 1) \div BOUNDARY) * BOUNDARY
\* bus address of a page-aligned DMA buffer
DmaBase == 16 * BOUNDARY
\* start addresses explored: at, just after and just before a 4 KiB boundary
StartAddrs ==
    {DmaBase + o : o \in 0..MaxStartOffset}
        \cup {DmaBase + BOUNDARY - o : o \in 1..MaxStartOffset}
\* transfer sizes explored: tiny, around whole pages, and one full frame
TotalSizes ==
    (0..MaxSizeSlack)
        \cup {p * BOUNDARY + d : p \in 1..MaxPages, d \in (0 - MaxSizeSlack)..MaxSizeSlack}
        \cup {FPGA_FRAME_SIZE_BGR565}

\* --timeout-ms values explored (the option must be positive)
TimeoutMsChoices == {25, 50}
\* pool capacities: 1 in zero-copy mode, else copy_buffers
SlotCounts == {1} \cup (MIN_COPY_BUFFERS..MaxSlots)

VARIABLES
    \* ---- struct app_ctx: the slot pool
    slot_count,               \* ctx->slot_count
    slots,                    \* ctx->slots[i].{in_use, generation}
    released_frames,          \* ctx->released_frames
    slot_wait_timeout_count,  \* ctx->slot_wait_timeout_count
    opt_timeout_ms,           \* ctx->opt.timeout_ms
    \* ---- the monotonic clock and the condition variable
    now,                      \* mono_us()
    cond_signalled,           \* a g_cond_signal reached the parked waiter
    \* ---- the capture thread inside acquire_free_slot
    acq_pc,                   \* "idle", "scan", "wait"
    deadline_us,              \* local deadline_us
    wake_us,                  \* local wake_us
    call_us,                  \* clock value when the call was made
    \* ---- observation of the calls made so far
    handouts,                 \* tickets returned by acquire, in order
    acq_calls,                \* number of acquire_free_slot calls made
    acq_returns,              \* number of acquire_free_slot calls returned
    last_ret,                 \* outcome of the last returned acquire
    released_once,            \* hand-outs whose ticket was released at least once
    freed_in_call,            \* a release freed a slot during the current acquire call
    last_op,                  \* the operation of the last step
    \* ---- fpga_dma_perform_transfer
    dma_pc,                   \* "idle", "chunk", "poll", "done", "timedout"
    dma_handle,               \* dev->dma_handle
    dma_size,                 \* the size argument
    remaining,                \* local remaining
    current_addr,             \* local current_addr
    chunk_size,               \* local chunk_size
    chunk_num,                \* local chunk_num
    chunks,                   \* the chunks whose command was issued, in order
    dma_ret,                  \* "running", then the value returned: "OK" or "ETIMEDOUT"
    dma_buf_data,             \* the chunks (by chunk_num) whose data is in dev->dma_buf
    sentinel0,                \* the word at chunk_tail0: "none", "set" (sentinel), "overwritten"
    sentinel1,                \* the word at chunk_tail1, likewise ("none" when chunk_tail1 is NULL)
    \* ---- the completion poll loop of one chunk
    dma_poll_sleep_us,        \* module parameter: initial sleep
    dma_poll_sleep_max_us,    \* module parameter: ceiling of the sleep
    dma_poll_backoff_polls,   \* module parameter: polls between two doublings
    poll_pc,                  \* "idle", "poll", "done"
    poll_sleep_cur_us,        \* local poll_sleep_cur_us
    poll_count,               \* local poll_count
    sleeps,                   \* the intervals passed to usleep_range, in order
    spins,                    \* number of cpu_relax() passes
    dma_timeout_jiffies,      \* msecs_to_jiffies(dma_timeout_ms)
    jiffies,                  \* the kernel's tick counter
    deadline,                 \* local deadline
    poll_pending,             \* a sentinel of the chunk still reads as the sentinel
    poll_ret,                 \* "none", "ok" or "ETIMEDOUT"
    \* ---- the capture loop of main and the renderer
    program,                  \* "lpr" (fpga_lpr_display.c) or "display" (part_003)
    info,                     \* struct fpga_info as FPGA_DMA_GET_INFO reports it
    opt_io_mmap,              \* ctx->opt.io_mode == IO_MODE_MMAP
    opt_copy_buffers,         \* ctx->opt.copy_buffers
    zero_copy_mode,           \* ctx->zero_copy_mode
    loop_pc,                  \* position of main: "init", "head", "trigger", "acquire",
                              \* "events", "scan", "wait", "build", "push", "out", "done"
    ticket,                   \* local ticket of the loop body
    in_flight,                \* buffers the renderer holds, each with its cookie's ticket
    pushed_frames,            \* ctx->pushed_frames
    dma_triggers,             \* number of trigger_frame_dma calls made
    fault,                    \* the failure that ended the loop, or "none"
    ret,                      \* main's local ret, its exit status at return
    cb_log,                   \* the runs of frame_release_notify, in order
    stop_at_wake,             \* g_stop was set when the wait in acquire last returned
    \* ---- struct app_ctx: the inference mailbox and the run flag
    running,                  \* ctx->running (a plain bool, written outside any lock)
    run_vis,                  \* is the last write of running ordered before the worker's reads:
                              \* "sync", "racy" (written, not published), "released"
    g_stop,                   \* set by the signal handler
    infer_lock,               \* owner of ctx->infer_lock: "none", "main", "worker"
    infer_has_new,            \* ctx->infer_has_new
    infer_frame_seq,          \* ctx->infer_frame_seq
    infer_overwrite_count,    \* ctx->infer_overwrite_count
    infer_latest_raw,         \* the frame held in ctx->infer_latest_raw (its capture number)
    captured_frames,          \* ctx->captured_frames
    infer_frames_total,       \* ctx->results.infer_frames_total
    results_frame_seq,        \* ctx->results.frame_seq
    \* ---- the two threads
    main_pc,                  \* "off", "head", "push_lock", "push_body", "rest",
                              \* "cleanup", "cleanup_lock", "cleanup_bcast", "join", "done"
    worker_pc,                \* "off", "start", "head", "lock", "check", "wait", "infer", "exited"
    inf_woken,                \* a signal or broadcast reached the worker parked on infer_cond
    raw_local,                \* the worker's copy of the frame
    seq,                      \* the worker's local seq
    \* ---- observation of the mailbox traffic
    processed,                \* what the worker took, in order, with the last write at that time
    last_write,               \* the frame and sequence number of the last push
    overwritten,              \* frames overwritten in the mailbox before they were taken
    bcast_woke,               \* the cleanup broadcast found the worker parked
    \* ---- struct fpga_dma_dev and the calls of ioctl(FPGA_DMA_READ_FRAME)
    dev_pixel_format,         \* dev->info.pixel_format
    dma_lock,                 \* owner of dev->dma_lock: a caller, or NoOwner
    io_pc,                    \* per caller: "off", "entry", "lock", "chunk", "poll",
                              \* "unlock", "copy", "done"
    transfer_size,            \* per caller: transfer.size
    user_buf,                 \* per caller: transfer.user_buf is not null (read at the copy)
    io_size,                  \* per caller: local size
    io_remaining,             \* per caller: remaining of its fpga_dma_perform_transfer
    io_addr,                  \* per caller: current_addr of its fpga_dma_perform_transfer
    io_ret,                   \* per caller: what the ioctl returned, or "none"
    io_locked,                \* per caller: the call has taken dev->dma_lock
    io_copied,                \* per caller: what the bytes copied to the caller were
    io_buf,                   \* dev->dma_buf, as ranges with their last writer
    hw_runs                   \* the chunk commands the device received, in order

poolVars == <<slot_count, slots, released_frames, slot_wait_timeout_count,
              opt_timeout_ms, now, cond_signalled, acq_pc, deadline_us,
              wake_us, call_us, handouts, acq_calls, acq_returns, last_ret,
              released_once, freed_in_call, last_op>>

dmaVars == <<dma_pc, dma_handle, dma_size, remaining, current_addr, chunk_size,
             chunk_num, chunks, dma_ret, dma_buf_data, sentinel0, sentinel1>>

inferVars == <<running, run_vis, g_stop, infer_lock, infer_has_new,
               infer_frame_seq, infer_overwrite_count, infer_latest_raw,
               captured_frames, infer_frames_total, results_frame_seq,
               main_pc, worker_pc, inf_woken, raw_local, seq, processed,
               last_write, overwritten, bcast_woke>>

pollVars == <<dma_poll_sleep_us, dma_poll_sleep_max_us, dma_poll_backoff_polls,
              poll_pc, poll_sleep_cur_us, poll_count, sleeps, spins,
              dma_timeout_jiffies, jiffies, deadline, poll_pending, poll_ret>>

loopVars == <<program, info, opt_io_mmap, opt_copy_buffers, zero_copy_mode,
              loop_pc, ticket, in_flight, pushed_frames, dma_triggers, fault, ret,
              cb_log, stop_at_wake>>

ioVars == <<dev_pixel_format, dma_lock, io_pc, transfer_size, user_buf, io_size,
            io_remaining, io_addr, io_ret, io_locked, io_copied, io_buf,
            hw_runs>>

vars == <<poolVars, dmaVars, inferVars, pollVars, loopVars, ioVars>>

(***************************************************************************)
(* The slot pool                                                           *)
(***************************************************************************)
SlotIdx == 0..(slot_count - 1)

ScanFreeSlot_First(sl, n) == 0

\* for (i = 0; i < slot_count; i++) if (!slots[i].in_use): the first free slot, or -1
ScanFreeSlot(sl, n) ==
    IF \E i \in 0..(n - 1) : ~sl[i].in_use
    THEN CHOOSE i \in 0..(n - 1) :
            /\ ~sl[i].in_use
            /\ \A j \in 0..(n - 1) : ~sl[j].in_use => i <= j
    ELSE -1

HandOut_Wrap(sl, i) ==
    [sl EXCEPT ![i] = [in_use |-> TRUE, generation |-> (sl[i].generation + 1) % 2]]

HandOut_NoIncrement(sl, i) ==
    [sl EXCEPT ![i] = [in_use |-> TRUE, generation |-> sl[i].generation]]

\* slots[i].in_use = true; slots[i].generation++
HandOut(sl, i) ==
    [sl EXCEPT ![i] = [in_use |-> TRUE, generation |-> sl[i].generation + 1]]

\* ticket->idx = i; ticket->generation = slots[i].generation
TicketOf(sl, i) == [idx |-> i, generation |-> sl[i].generation]

ReleaseMatches_Always(sl, n, t) == t.idx >= 0 /\ t.idx < n

ReleaseMatches_NoGeneration(sl, n, t) ==
    /\ t.idx >= 0
    /\ t.idx < n
    /\ sl[t.idx].in_use

ReleaseMatches_NoInUse(sl, n, t) ==
    /\ t.idx >= 0
    /\ t.idx < n
    /\ sl[t.idx].generation = t.generation

\* the condition under which release_slot_ticket frees the slot
ReleaseMatches(sl, n, t) ==
    /\ t.idx >= 0
    /\ t.idx < n
    /\ sl[t.idx].in_use
    /\ sl[t.idx].generation = t.generation

FreeSlot_BumpGeneration(sl, i) ==
    [sl EXCEPT ![i] = [in_use |-> FALSE, generation |-> sl[i].generation + 1]]

\* slots[ticket->idx].in_use = false
FreeSlot(sl, i) == [sl EXCEPT ![i].in_use = FALSE]

DeadlineUs_NoScale(t, ms) == t + ms

\* deadline_us = mono_us() + (int64_t)timeout_ms * 1000LL
DeadlineUs(t, ms) == t + ms * US_PER_MS

\* wake_us = now + 20000; if (wake_us > deadline_us) wake_us = deadline_us
WakeUs(t, dl) == IF t + WAKE_PERIOD_US > dl THEN dl ELSE t + WAKE_PERIOD_US

CountTimeout_Never(c) == c

\* ctx->slot_wait_timeout_count++
CountTimeout(c) == c + 1

ScanDecision_DeadlineFirst(i, t, dl) ==
    IF t >= dl THEN "timeout" ELSE IF i >= 0 THEN "take" ELSE "wait"

\* the order of the tests in the for(;;) body: a free slot is looked for
\* first, the deadline is tested only when none was found
ScanDecision(i, t, dl) ==
    IF i >= 0 THEN "take" ELSE IF t >= dl THEN "timeout" ELSE "wait"

\* a ticket is valid while its slot is in use under the ticket's generation
Valid(t) ==
    /\ t.idx \in SlotIdx
    /\ slots[t.idx].in_use
    /\ slots[t.idx].generation = t.generation

ValidHandouts == {k \in DOMAIN handouts : Valid(handouts[k])}

(***************************************************************************)
(* Initial state: init_copy_slots has run (calloc zeroes the slots)        *)
(***************************************************************************)
PoolInit ==
    /\ slot_count \in SlotCounts
    /\ slots = [i \in 0..(slot_count - 1) |-> [in_use |-> FALSE, generation |-> 0]]
    /\ released_frames = 0
    /\ slot_wait_timeout_count = 0
    /\ opt_timeout_ms \in TimeoutMsChoices
    /\ now = 0
    /\ cond_signalled = FALSE
    /\ acq_pc = "idle"
    /\ deadline_us = 0
    /\ wake_us = 0
    /\ call_us = 0
    /\ handouts = <<>>
    /\ acq_calls = 0
    /\ acq_returns = 0
    /\ last_ret = [res |-> 0, t_call |-> 0, t_ret |-> 0]
    /\ released_once = {}
    /\ freed_in_call = FALSE
    /\ last_op = [op |-> "init", k |-> 0, again |-> FALSE]

(***************************************************************************)
(* The monotonic clock                                                     *)
(***************************************************************************)
Tick ==
    /\ now < MaxTicks * TickUs
    /\ now' = now + TickUs
    /\ last_op' = [op |-> "tick", k |-> 0, again |-> FALSE]
    /\ UNCHANGED <<slot_count, slots, released_frames, slot_wait_timeout_count,
                   opt_timeout_ms, cond_signalled, acq_pc, deadline_us, wake_us,
                   call_us, handouts, acq_calls, acq_returns, last_ret,
                   released_once, freed_in_call,
                   dmaVars, inferVars, pollVars, loopVars, ioVars>>

(***************************************************************************)
(* acquire_free_slot, run by the capture thread                            *)
(***************************************************************************)
\* entry: the deadline is computed, the ticket is reset
AcquireCall ==
    /\ acq_pc = "idle"
    /\ acq_calls < MaxAcquires
    /\ acq_pc' = "scan"
    /\ acq_calls' = acq_calls + 1
    /\ deadline_us' = DeadlineUs(now, opt_timeout_ms)
    /\ call_us' = now
    /\ freed_in_call' = FALSE
    /\ last_op' = [op |-> "acquire_call", k |-> 0, again |-> FALSE]
    /\ UNCHANGED <<slot_count, slots, released_frames, slot_wait_timeout_count,
                   opt_timeout_ms, now, cond_signalled, wake_us, handouts,
                   acq_returns, last_ret, released_once,
                   dmaVars, inferVars, pollVars, loopVars, ioVars>>

\* one pass of the for(;;) body under slots_lock, up to the return or the wait
AcquireScan ==
    /\ acq_pc = "scan"
    /\ LET i == ScanFreeSlot(slots, slot_count) IN
       IF ScanDecision(i, now, deadline_us) = "take"
       THEN \* a free slot: hand it out and return 0
            LET sl == HandOut(slots, i) IN
            /\ slots' = sl
            /\ handouts' = Append(handouts, TicketOf(sl, i))
            /\ acq_pc' = "idle"
            /\ acq_returns' = acq_returns + 1
            /\ last_ret' = [res |-> 0, t_call |-> call_us, t_ret |-> now]
            /\ last_op' = [op |-> "acquire_ok", k |-> Len(handouts) + 1, again |-> FALSE]
            /\ UNCHANGED <<slot_wait_timeout_count, wake_us, cond_signalled>>
       ELSE IF ScanDecision(i, now, deadline_us) = "timeout"
       THEN \* the deadline has passed: count the timeout and return -1
            /\ slot_wait_timeout_count' = CountTimeout(slot_wait_timeout_count)
            /\ acq_pc' = "idle"
            /\ acq_returns' = acq_returns + 1
            /\ last_ret' = [res |-> -1, t_call |-> call_us, t_ret |-> now]
            /\ last_op' = [op |-> "acquire_timeout", k |-> 0, again |-> FALSE]
            /\ UNCHANGED <<slots, handouts, wake_us, cond_signalled>>
       ELSE \* park on slots_cond until wake_us
            /\ wake_us' = WakeUs(now, deadline_us)
            /\ acq_pc' = "wait"
            /\ cond_signalled' = FALSE
            /\ last_op' = [op |-> "acquire_wait", k |-> 0, again |-> FALSE]
            /\ UNCHANGED <<slots, handouts, slot_wait_timeout_count,
                           acq_returns, last_ret>>
    /\ UNCHANGED <<slot_count, released_frames, opt_timeout_ms, now,
                   deadline_us, call_us, acq_calls, released_once, freed_in_call,
                   dmaVars, inferVars, pollVars, loopVars, ioVars>>

\* g_cond_wait_until returns: signalled, or the wake time was reached
AcquireWake ==
    /\ acq_pc = "wait"
    /\ cond_signalled \/ now >= wake_us
    /\ acq_pc' = "scan"
    /\ cond_signalled' = FALSE
    /\ last_op' = [op |-> "acquire_wake", k |-> 0, again |-> FALSE]
    /\ UNCHANGED <<slot_count, slots, released_frames, slot_wait_timeout_count,
                   opt_timeout_ms, now, deadline_us, wake_us, call_us, handouts,
                   acq_calls, acq_returns, last_ret, released_once, freed_in_call,
                   dmaVars, inferVars, pollVars, loopVars, ioVars>>

\* g_cond_wait_until may also return spuriously
AcquireSpuriousWake ==
    /\ acq_pc = "wait"
    /\ ~cond_signalled
    /\ now < wake_us
    /\ acq_pc' = "scan"
    /\ last_op' = [op |-> "acquire_spurious", k |-> 0, again |-> FALSE]
    /\ UNCHANGED <<slot_count, slots, released_frames, slot_wait_timeout_count,
                   opt_timeout_ms, now, cond_signalled, deadline_us, wake_us,
                   call_us, handouts, acq_calls, acq_returns, last_ret,
                   released_once, freed_in_call,
                   dmaVars, inferVars, pollVars, loopVars, ioVars>>

(***************************************************************************)
(* release_slot_ticket, called from any thread with the ticket of any      *)
(* earlier hand-out (frame_release_notify passes count_release = true,     *)
(* the failure paths pass false)                                           *)
(***************************************************************************)
Release(k, count_release) ==
    /\ k \in DOMAIN handouts
    /\ LET t == handouts[k] IN
       IF ReleaseMatches(slots, slot_count, t)
       THEN /\ slots' = FreeSlot(slots, t.idx)
            /\ released_frames' = IF count_release THEN released_frames + 1
                                                   ELSE released_frames
            /\ cond_signalled' = (acq_pc = "wait")
            /\ freed_in_call' = (freed_in_call \/ acq_pc # "idle")
       ELSE UNCHANGED <<slots, released_frames, cond_signalled, freed_in_call>>
    /\ released_once' = released_once \cup {k}
    /\ last_op' = [op |-> "release", k |-> k, again |-> (k \in released_once)]
    /\ UNCHANGED <<slot_count, slot_wait_timeout_count, opt_timeout_ms, now,
                   acq_pc, deadline_us, wake_us, call_us, handouts, acq_calls,
                   acq_returns, last_ret,
                   dmaVars, inferVars, pollVars, loopVars, ioVars>>

ReleaseAny == \E k \in DOMAIN handouts, c \in BOOLEAN : Release(k, c)

PoolNext ==
    \/ Tick
    \/ AcquireCall
    \/ AcquireScan
    \/ AcquireWake
    \/ AcquireSpuriousWake
    \/ ReleaseAny

(***************************************************************************)
(* fpga_dma_perform_transfer: the chunked DMA read of one frame            *)
(***************************************************************************)
Min(a, b) == IF a < b THEN a ELSE b

\* ALIGN(addr, 0x1000)
AlignUp(addr) == ((addr + BOUNDARY - 1) \div BOUNDARY) * BOUNDARY

ChunkSize_NoBoundary(addr, rem) == Min(rem, DMA_MAX_LEN_BYTES)

ChunkSize_OffByOne(addr, rem) ==
    LET c == Min(rem, DMA_MAX_LEN_BYTES) IN
    IF (addr % BOUNDARY) + c > BOUNDARY - 1
    THEN (BOUNDARY - 1) - (addr % BOUNDARY)
    ELSE c

\* chunk_size = min(remaining, DMA_MAX_LEN_BYTES), cut at the next 4 KiB boundary
ChunkSize(addr, rem) ==
    LET c == Min(rem, DMA_MAX_LEN_BYTES) IN
    IF (addr % BOUNDARY) + c > BOUNDARY
    THEN BOUNDARY - (addr % BOUNDARY)
    ELSE c

\* length_in_dwords = (chunk_size + 3) / 4 (a chunk has at most 4096 bytes,
\* so the u32 holds the quotient)
LengthInDwords(c) == (c + 3) \div 4

CmdLength_NoMinusOne(c) == LengthInDwords(c)

\* cmd_length = length_in_dwords - 1 (a u32: it wraps only for a length of 0,
\* and 2^32 is a multiple of the mask width, so the masked field below is exact)
CmdLength(c) == LengthInDwords(c) - 1

\* cmd_reg = (cmd_length & DMA_CMD_LEN_MASK) | DMA_CMD_64BIT_ADDR | DMA_CMD_WRITE
\* (the mask is 2^10 - 1 and the three fields do not overlap)
CmdReg(c) ==
    (CmdLength(c) % (DMA_CMD_LEN_MASK + 1)) + DMA_CMD_64BIT_ADDR + DMA_CMD_WRITE

\* bits [9:0] of a command word
LenField(cmd) == cmd % (DMA_CMD_LEN_MASK + 1)

\* lower_32_bits(addr) and upper_32_bits(addr) of a dma_addr_t (the shift by
\* 32 is done as two shifts by 16)
Upper32(addr) == (addr \div 65536) \div 65536
Lower32(addr) == addr - (Upper32(addr) * 65536) * 65536

\* the BAR1 registers of the DMA engine
BAR1_DMA_CMD_REG == 256
BAR1_DMA_L_ADDR == 272
BAR1_DMA_H_ADDR == 288

RegWrites_CmdFirst(addr, c) ==
    << [reg |-> BAR1_DMA_CMD_REG, val |-> CmdReg(c)],
       [reg |-> BAR1_DMA_L_ADDR, val |-> Lower32(addr)],
       [reg |-> BAR1_DMA_H_ADDR, val |-> Upper32(addr)] >>

\* the three fpga_dma_write_reg calls of one chunk, in program order
RegWrites(addr, c) ==
    << [reg |-> BAR1_DMA_L_ADDR, val |-> Lower32(addr)],
       [reg |-> BAR1_DMA_H_ADDR, val |-> Upper32(addr)],
       [reg |-> BAR1_DMA_CMD_REG, val |-> CmdReg(c)] >>

RemainingAfter_FullChunk(rem, c) ==
    IF rem > DMA_MAX_LEN_BYTES THEN rem - DMA_MAX_LEN_BYTES ELSE 0

RemainingAfter_Twice(rem, c) == IF rem > 2 * c THEN rem - 2 * c ELSE 0

\* remaining -= chunk_size
RemainingAfter(rem, c) == rem - c

\* buf_offset = (size_t)(current_addr - dev->dma_handle)
BufOffset(addr, handle) == addr - handle

\* chunk_tail0, as a byte offset into dev->dma_buf
ChunkTail0(off, c) == off + c - SENTINEL_BYTES

\* if (chunk_size >= 8) a second sentinel is used
HasTail1(c) == c >= 2 * SENTINEL_BYTES

\* chunk_tail1, as a byte offset into dev->dma_buf; NullTail when it stays NULL
ChunkTail1(off, c) ==
    IF HasTail1(c) THEN ChunkTail0(off, c) - SENTINEL_BYTES ELSE NullTail

SentinelsPending_Tail0Only(s0, s1) == s0 = "set"

\* the condition of the poll loop: a sentinel written for the chunk still reads
\* as the sentinel
SentinelsPending(s0, s1) == s0 = "set" \/ s1 = "set"

\* the sum of the lengths of the chunks cs[lo..hi], by halving the range
RECURSIVE SumRange(_, _, _)
SumRange(cs, lo, hi) ==
    IF lo > hi THEN 0
    ELSE IF lo = hi THEN cs[lo].len
    ELSE LET mid == (lo + hi) \div 2 IN
         SumRange(cs, lo, mid) + SumRange(cs, mid + 1, hi)

SumLen(cs) == SumRange(cs, 1, Len(cs))

\* the pool is not in use while the driver is examined
PoolIdle ==
    /\ slot_count = 1
    /\ slots = [i \in 0..0 |-> [in_use |-> FALSE, generation |-> 0]]
    /\ released_frames = 0
    /\ slot_wait_timeout_count = 0
    /\ opt_timeout_ms = 50
    /\ now = 0
    /\ cond_signalled = FALSE
    /\ acq_pc = "idle"
    /\ deadline_us = 0
    /\ wake_us = 0
    /\ call_us = 0
    /\ handouts = <<>>
    /\ acq_calls = 0
    /\ acq_returns = 0
    /\ last_ret = [res |-> 0, t_call |-> 0, t_ret |-> 0]
    /\ released_once = {}
    /\ freed_in_call = FALSE
    /\ last_op = [op |-> "init", k |-> 0, again |-> FALSE]

\* no transfer is in progress
DmaIdle ==
    /\ dma_pc = "idle"
    /\ dma_handle = DmaBase
    /\ dma_size = 0
    /\ remaining = 0
    /\ current_addr = DmaBase
    /\ chunk_size = 0
    /\ chunk_num = 0
    /\ chunks = <<>>
    /\ dma_ret = "running"
    /\ dma_buf_data = {}
    /\ sentinel0 = "none"
    /\ sentinel1 = "none"

\* a call of fpga_dma_perform_transfer(dev, size) is about to be made
DmaInit ==
    /\ dma_pc = "idle"
    /\ dma_handle \in StartAddrs
    /\ dma_size \in TotalSizes
    /\ remaining = 0
    /\ current_addr = dma_handle
    /\ chunk_size = 0
    /\ chunk_num = 0
    /\ chunks = <<>>
    /\ dma_ret = "running"
    /\ dma_buf_data = {}
    /\ sentinel0 = "none"
    /\ sentinel1 = "none"

\* entry: remaining = size, current_addr = dev->dma_handle, chunk_num = 0
DmaStart ==
    /\ dma_pc = "idle"
    /\ dma_pc' = "chunk"
    /\ remaining' = dma_size
    /\ current_addr' = dma_handle
    /\ chunk_num' = 0
    /\ UNCHANGED <<dma_handle, dma_size, chunk_size, chunks, dma_ret, dma_buf_data,
                   sentinel0, sentinel1>>
    /\ UNCHANGED <<poolVars, inferVars, pollVars, loopVars, ioVars>>

\* loop head with remaining > 0: size the chunk and write the end-of-chunk
\* sentinels into dev->dma_buf (chunk_tail1 only when chunk_size >= 8)
DmaPrepareChunk ==
    /\ dma_pc = "chunk"
    /\ remaining > 0
    /\ LET c == ChunkSize(current_addr, remaining) IN
       IF c = 0
       THEN \* address exactly at the boundary: align and retry
            /\ current_addr' = AlignUp(current_addr)
            /\ chunk_size' = c
            /\ UNCHANGED <<dma_pc, sentinel0, sentinel1>>
       ELSE /\ chunk_size' = c
            /\ sentinel0' = "set"
            /\ sentinel1' = IF HasTail1(c) THEN "set" ELSE "none"
            /\ dma_pc' = "cmd"
            /\ UNCHANGED current_addr
    /\ UNCHANGED <<dma_handle, dma_size, remaining, chunk_num, chunks, dma_ret,
                   dma_buf_data>>
    /\ UNCHANGED <<poolVars, inferVars, pollVars, loopVars, ioVars>>

\* after dma_wmb(): write the address registers and the command register
DmaIssueChunk ==
    /\ dma_pc = "cmd"
    /\ chunks' = Append(chunks,
                        [addr |-> current_addr, len |-> chunk_size,
                         cmd |-> CmdReg(chunk_size), rem |-> remaining,
                         regs |-> RegWrites(current_addr, chunk_size),
                         off |-> BufOffset(current_addr, dma_handle),
                         tail0 |-> ChunkTail0(BufOffset(current_addr, dma_handle),
                                              chunk_size),
                         tail1 |-> ChunkTail1(BufOffset(current_addr, dma_handle),
                                              chunk_size)])
    /\ dma_pc' = "poll"
    /\ UNCHANGED <<dma_handle, dma_size, remaining, current_addr, chunk_size,
                   chunk_num, dma_ret, dma_buf_data, sentinel0, sentinel1>>
    /\ UNCHANGED <<poolVars, inferVars, pollVars, loopVars, ioVars>>

\* the device's write reaches the word at chunk_tail0
DevOverwriteTail0 ==
    /\ dma_pc = "poll"
    /\ sentinel0 = "set"
    /\ sentinel0' = "overwritten"
    /\ UNCHANGED <<dma_pc, dma_handle, dma_size, remaining, current_addr,
                   chunk_size, chunk_num, chunks, dma_ret, dma_buf_data,
                   sentinel1>>
    /\ UNCHANGED <<poolVars, inferVars, pollVars, loopVars, ioVars>>

\* the device's write reaches the word at chunk_tail1
DevOverwriteTail1 ==
    /\ dma_pc = "poll"
    /\ sentinel1 = "set"
    /\ sentinel1' = "overwritten"
    /\ UNCHANGED <<dma_pc, dma_handle, dma_size, remaining, current_addr,
                   chunk_size, chunk_num, chunks, dma_ret, dma_buf_data,
                   sentinel0>>
    /\ UNCHANGED <<poolVars, inferVars, pollVars, loopVars, ioVars>>

\* the poll loop's condition is false: the chunk is accounted
DmaChunkDone ==
    /\ dma_pc = "poll"
    /\ ~SentinelsPending(sentinel0, sentinel1)
    /\ remaining' = RemainingAfter(remaining, chunk_size)
    /\ current_addr' = current_addr + chunk_size
    /\ chunk_num' = chunk_num + 1
    /\ dma_pc' = "chunk"
    /\ dma_buf_data' = dma_buf_data \cup {chunk_num}
    /\ UNCHANGED <<dma_handle, dma_size, chunk_size, chunks, dma_ret, sentinel0,
                   sentinel1>>
    /\ UNCHANGED <<poolVars, inferVars, pollVars, loopVars, ioVars>>

DmaChunkTimeout_BreakOnly ==
    /\ dma_pc = "poll"
    /\ SentinelsPending(sentinel0, sentinel1)
    /\ dma_ret' = "ETIMEDOUT"
    /\ remaining' = RemainingAfter(remaining, chunk_size)
    /\ current_addr' = current_addr + chunk_size
    /\ chunk_num' = chunk_num + 1
    /\ dma_pc' = "chunk"
    /\ UNCHANGED <<dma_handle, dma_size, chunk_size, chunks, dma_buf_data,
                   sentinel0, sentinel1>>
    /\ UNCHANGED <<poolVars, inferVars, pollVars, loopVars, ioVars>>

\* a sentinel is still in place after the deadline: return -ETIMEDOUT
DmaChunkTimeout ==
    /\ dma_pc = "poll"
    /\ SentinelsPending(sentinel0, sentinel1)
    /\ dma_pc' = "timedout"
    /\ dma_ret' = "ETIMEDOUT"
    /\ UNCHANGED <<dma_handle, dma_size, remaining, current_addr, chunk_size,
                   chunk_num, chunks, dma_buf_data, sentinel0, sentinel1>>
    /\ UNCHANGED <<poolVars, inferVars, pollVars, loopVars, ioVars>>

\* loop head with remaining == 0: return 0
DmaReturn ==
    /\ dma_pc = "chunk"
    /\ remaining = 0
    /\ dma_pc' = "done"
    /\ dma_ret' = IF dma_ret = "running" THEN "OK" ELSE dma_ret
    /\ UNCHANGED <<dma_handle, dma_size, remaining, current_addr, chunk_size,
                   chunk_num, chunks, dma_buf_data, sentinel0, sentinel1>>
    /\ UNCHANGED <<poolVars, inferVars, pollVars, loopVars, ioVars>>

DmaNext ==
    \/ DmaStart
    \/ DmaPrepareChunk
    \/ DmaIssueChunk
    \/ DevOverwriteTail0
    \/ DevOverwriteTail1
    \/ DmaChunkDone
    \/ DmaChunkTimeout
    \/ DmaReturn

(***************************************************************************)
(* The inference mailbox: push_latest_to_infer, infer_thread_main, and the *)
(* shutdown path of main and cleanup                                       *)
(***************************************************************************)
\* the values a read of ctx->running by the worker can return: the flag is a
\* plain bool that main writes without holding a lock, so a read that is not
\* ordered after the write by a lock hand-over may still see the old TRUE
RunningSeenByWorker ==
    IF run_vis = "sync" THEN {running} ELSE {running, TRUE}

\* the worker acquires infer_lock: a write of running published by an earlier
\* unlock of main becomes visible
VisAfterWorkerLock(v) == IF v = "released" THEN "sync" ELSE v

OverwriteCountAfterPush_Always(has_new, c) == c + 1

\* if (ctx->infer_has_new) ctx->infer_overwrite_count++;
OverwriteCountAfterPush(has_new, c) == IF has_new THEN c + 1 ELSE c

MailboxAfterPush_KeepOldest(has_new, old, new) == IF has_new THEN old ELSE new

\* memcpy(ctx->infer_latest_raw, raw, ctx->frame_size);
MailboxAfterPush(has_new, old, new) == new

HasNewAfterTake_Stays == TRUE

\* ctx->infer_has_new = false;
HasNewAfterTake == FALSE

CondWake_None(pc, woken) == woken

\* pthread_cond_signal / pthread_cond_broadcast on infer_cond: the worker is
\* the only thread that ever waits on it
CondWake(pc, woken) == woken \/ pc = "wait"

\* memset(&ctx, 0, sizeof(ctx)): the state before the threads exist
InferIdle ==
    /\ running = FALSE
    /\ run_vis = "sync"
    /\ g_stop = FALSE
    /\ infer_lock = "none"
    /\ infer_has_new = FALSE
    /\ infer_frame_seq = 0
    /\ infer_overwrite_count = 0
    /\ infer_latest_raw = 0
    /\ captured_frames = 0
    /\ infer_frames_total = 0
    /\ results_frame_seq = 0
    /\ main_pc = "off"
    /\ worker_pc = "off"
    /\ inf_woken = FALSE
    /\ raw_local = 0
    /\ seq = 0
    /\ processed = <<>>
    /\ last_write = [frame |-> 0, seq |-> 0]
    /\ overwritten = {}
    /\ bcast_woke = FALSE

\* main has set ctx.running, initialised the locks and created the worker
InferInit ==
    /\ running = TRUE
    /\ run_vis = "sync"
    /\ g_stop = FALSE
    /\ infer_lock = "none"
    /\ infer_has_new = FALSE
    /\ infer_frame_seq = 0
    /\ infer_overwrite_count = 0
    /\ infer_latest_raw = 0
    /\ captured_frames = 0
    /\ infer_frames_total = 0
    /\ results_frame_seq = 0
    /\ main_pc = "head"
    /\ worker_pc = "start"
    /\ inf_woken = FALSE
    /\ raw_local = 0
    /\ seq = 0
    /\ processed = <<>>
    /\ last_write = [frame |-> 0, seq |-> 0]
    /\ overwritten = {}
    /\ bcast_woke = FALSE

\* signal_handler: SIGINT or SIGTERM arrives
Signal ==
    /\ main_pc \notin {"off", "done"}
    /\ ~g_stop
    /\ g_stop' = TRUE
    /\ UNCHANGED <<running, run_vis, infer_lock, infer_has_new, infer_frame_seq,
                   infer_overwrite_count, infer_latest_raw, captured_frames,
                   infer_frames_total, results_frame_seq, main_pc, worker_pc,
                   inf_woken, raw_local, seq, processed, last_write,
                   overwritten, bcast_woke>>
    /\ UNCHANGED <<poolVars, dmaVars, pollVars, loopVars, ioVars>>

\* main: the head of the capture loop up to the call of push_latest_to_infer.
\* ev is what the bus and the DMA ioctl report in this iteration.
M_LoopHead ==
    /\ main_pc = "head"
    /\ \E ev \in {"ok", "bus_error", "dma_fail"} :
        IF g_stop \/ ev = "bus_error"
        THEN \* ctx.running = false; break
             /\ running' = FALSE
             /\ run_vis' = "racy"
             /\ main_pc' = "cleanup"
             /\ UNCHANGED captured_frames
        ELSE IF ev = "dma_fail"
        THEN \* trigger_frame_dma failed: break
             /\ main_pc' = "cleanup"
             /\ UNCHANGED <<running, run_vis, captured_frames>>
        ELSE /\ captured_frames < MaxFrames
             /\ captured_frames' = captured_frames + 1
             /\ main_pc' = "push_lock"
             /\ UNCHANGED <<running, run_vis>>
    /\ UNCHANGED <<g_stop, infer_lock, infer_has_new, infer_frame_seq,
                   infer_overwrite_count, infer_latest_raw, infer_frames_total,
                   results_frame_seq, worker_pc, inf_woken, raw_local, seq,
                   processed, last_write, overwritten, bcast_woke>>
    /\ UNCHANGED <<poolVars, dmaVars, pollVars, loopVars, ioVars>>

\* push_latest_to_infer: pthread_mutex_lock(&ctx->infer_lock)
M_PushLock ==
    /\ main_pc = "push_lock"
    /\ infer_lock = "none"
    /\ infer_lock' = "main"
    /\ main_pc' = "push_body"
    /\ UNCHANGED <<running, run_vis, g_stop, infer_has_new, infer_frame_seq,
                   infer_overwrite_count, infer_latest_raw, captured_frames,
                   infer_frames_total, results_frame_seq, worker_pc, inf_woken,
                   raw_local, seq, processed, last_write, overwritten,
                   bcast_woke>>
    /\ UNCHANGED <<poolVars, dmaVars, pollVars, loopVars, ioVars>>

\* push_latest_to_infer: the body under the lock, the signal and the unlock
M_PushBody ==
    /\ main_pc = "push_body"
    /\ infer_overwrite_count' =
           OverwriteCountAfterPush(infer_has_new, infer_overwrite_count)
    /\ infer_latest_raw' =
           MailboxAfterPush(infer_has_new, infer_latest_raw, captured_frames)
    /\ infer_frame_seq' = infer_frame_seq + 1
    /\ infer_has_new' = TRUE
    /\ inf_woken' = CondWake(worker_pc, inf_woken)
    /\ infer_lock' = "none"
    /\ main_pc' = "rest"
    /\ last_write' = [frame |-> captured_frames, seq |-> infer_frame_seq + 1]
    /\ overwritten' = IF infer_has_new THEN overwritten \cup {infer_latest_raw}
                                       ELSE overwritten
    /\ UNCHANGED <<running, run_vis, g_stop, captured_frames,
                   infer_frames_total, results_frame_seq, worker_pc, raw_local,
                   seq, processed, bcast_woke>>
    /\ UNCHANGED <<poolVars, dmaVars, pollVars, loopVars, ioVars>>

\* main: the rest of the iteration (slot, overlay, push to the display, pacing);
\* a slot timeout, a buffer failure or a flow error breaks out of the loop
M_Rest ==
    /\ main_pc = "rest"
    /\ \E ok \in BOOLEAN : main_pc' = IF ok THEN "head" ELSE "cleanup"
    /\ UNCHANGED <<running, run_vis, g_stop, infer_lock, infer_has_new,
                   infer_frame_seq, infer_overwrite_count, infer_latest_raw,
                   captured_frames, infer_frames_total, results_frame_seq,
                   worker_pc, inf_woken, raw_local, seq, processed, last_write,
                   overwritten, bcast_woke>>
    /\ UNCHANGED <<poolVars, dmaVars, pollVars, loopVars, ioVars>>

\* cleanup: ctx->running = false
C_ClearRunning ==
    /\ main_pc = "cleanup"
    /\ running' = FALSE
    /\ run_vis' = "racy"
    /\ main_pc' = "cleanup_lock"
    /\ UNCHANGED <<g_stop, infer_lock, infer_has_new, infer_frame_seq,
                   infer_overwrite_count, infer_latest_raw, captured_frames,
                   infer_frames_total, results_frame_seq, worker_pc, inf_woken,
                   raw_local, seq, processed, last_write, overwritten,
                   bcast_woke>>
    /\ UNCHANGED <<poolVars, dmaVars, pollVars, loopVars, ioVars>>

\* cleanup: pthread_mutex_lock(&ctx->infer_lock)
C_Lock ==
    /\ main_pc = "cleanup_lock"
    /\ infer_lock = "none"
    /\ infer_lock' = "main"
    /\ main_pc' = "cleanup_bcast"
    /\ UNCHANGED <<running, run_vis, g_stop, infer_has_new, infer_frame_seq,
                   infer_overwrite_count, infer_latest_raw, captured_frames,
                   infer_frames_total, results_frame_seq, worker_pc, inf_woken,
                   raw_local, seq, processed, last_write, overwritten,
                   bcast_woke>>
    /\ UNCHANGED <<poolVars, dmaVars, pollVars, loopVars, ioVars>>

\* cleanup: pthread_cond_broadcast(&ctx->infer_cond) and the unlock
C_Broadcast ==
    /\ main_pc = "cleanup_bcast"
    /\ inf_woken' = CondWake(worker_pc, inf_woken)
    /\ bcast_woke' = (worker_pc = "wait")
    /\ infer_lock' = "none"
    /\ run_vis' = "released"
    /\ main_pc' = "join"
    /\ UNCHANGED <<running, g_stop, infer_has_new, infer_frame_seq,
                   infer_overwrite_count, infer_latest_raw, captured_frames,
                   infer_frames_total, results_frame_seq, worker_pc, raw_local,
                   seq, processed, last_write, overwritten>>
    /\ UNCHANGED <<poolVars, dmaVars, pollVars, loopVars, ioVars>>

\* cleanup: pthread_join(ctx->infer_thread) returns
C_Join ==
    /\ main_pc = "join"
    /\ worker_pc = "exited"
    /\ main_pc' = "done"
    /\ UNCHANGED <<running, run_vis, g_stop, infer_lock, infer_has_new,
                   infer_frame_seq, infer_overwrite_count, infer_latest_raw,
                   captured_frames, infer_frames_total, results_frame_seq,
                   worker_pc, inf_woken, raw_local, seq, processed, last_write,
                   overwritten, bcast_woke>>
    /\ UNCHANGED <<poolVars, dmaVars, pollVars, loopVars, ioVars>>

\* infer_thread_main: the four mallocs; a failed one makes the thread return
W_Start ==
    /\ worker_pc = "start"
    /\ \E ok \in BOOLEAN : worker_pc' = IF ok THEN "head" ELSE "exited"
    /\ UNCHANGED <<running, run_vis, g_stop, infer_lock, infer_has_new,
                   infer_frame_seq, infer_overwrite_count, infer_latest_raw,
                   captured_frames, infer_frames_total, results_frame_seq,
                   main_pc, inf_woken, raw_local, seq, processed, last_write,
                   overwritten, bcast_woke>>
    /\ UNCHANGED <<poolVars, dmaVars, pollVars, loopVars, ioVars>>

\* infer_thread_main: while (ctx->running), read without the lock
W_LoopHead ==
    /\ worker_pc = "head"
    /\ \E r \in RunningSeenByWorker :
           worker_pc' = IF r THEN "lock" ELSE "exited"
    /\ UNCHANGED <<running, run_vis, g_stop, infer_lock, infer_has_new,
                   infer_frame_seq, infer_overwrite_count, infer_latest_raw,
                   captured_frames, infer_frames_total, results_frame_seq,
                   main_pc, inf_woken, raw_local, seq, processed, last_write,
                   overwritten, bcast_woke>>
    /\ UNCHANGED <<poolVars, dmaVars, pollVars, loopVars, ioVars>>

\* infer_thread_main: pthread_mutex_lock(&ctx->infer_lock)
W_Lock ==
    /\ worker_pc = "lock"
    /\ infer_lock = "none"
    /\ infer_lock' = "worker"
    /\ run_vis' = VisAfterWorkerLock(run_vis)
    /\ worker_pc' = "check"
    /\ UNCHANGED <<running, g_stop, infer_has_new, infer_frame_seq,
                   infer_overwrite_count, infer_latest_raw, captured_frames,
                   infer_frames_total, results_frame_seq, main_pc, inf_woken,
                   raw_local, seq, processed, last_write, overwritten,
                   bcast_woke>>
    /\ UNCHANGED <<poolVars, dmaVars, pollVars, loopVars, ioVars>>

W_Check_HoldLock ==
    /\ worker_pc = "check"
    /\ infer_lock = "worker"
    /\ \E r \in RunningSeenByWorker :
        IF r /\ ~infer_has_new
        THEN /\ worker_pc' = "wait"
             /\ inf_woken' = FALSE
             /\ infer_lock' = "none"
             /\ UNCHANGED <<infer_has_new, raw_local, seq, processed>>
        ELSE IF ~r
        THEN /\ worker_pc' = "exited"
             /\ infer_lock' = "none"
             /\ UNCHANGED <<infer_has_new, inf_woken, raw_local, seq, processed>>
        ELSE /\ raw_local' = infer_latest_raw
             /\ seq' = infer_frame_seq
             /\ infer_has_new' = HasNewAfterTake
             /\ worker_pc' = "infer"
             /\ processed' = Append(processed,
                                    [frame |-> infer_latest_raw,
                                     seq |-> infer_frame_seq,
                                     last |-> last_write])
             /\ UNCHANGED <<inf_woken, infer_lock>>
    /\ UNCHANGED <<running, run_vis, g_stop, infer_frame_seq,
                   infer_overwrite_count, infer_latest_raw, captured_frames,
                   infer_frames_total, results_frame_seq, main_pc, last_write,
                   overwritten, bcast_woke>>
    /\ UNCHANGED <<poolVars, dmaVars, pollVars, loopVars, ioVars>>

\* infer_thread_main, holding the lock: the wait loop test, then either park on
\* infer_cond (which releases the lock), or leave because running is clear, or
\* copy the frame and its sequence number out, clear has_new and unlock
W_Check ==
    /\ worker_pc = "check"
    /\ infer_lock = "worker"
    /\ \E r \in RunningSeenByWorker :
        IF r /\ ~infer_has_new
        THEN /\ worker_pc' = "wait"
             /\ inf_woken' = FALSE
             /\ UNCHANGED <<infer_has_new, raw_local, seq, processed>>
        ELSE IF ~r
        THEN /\ worker_pc' = "exited"
             /\ UNCHANGED <<infer_has_new, inf_woken, raw_local, seq, processed>>
        ELSE /\ raw_local' = infer_latest_raw
             /\ seq' = infer_frame_seq
             /\ infer_has_new' = HasNewAfterTake
             /\ worker_pc' = "infer"
             /\ processed' = Append(processed,
                                    [frame |-> infer_latest_raw,
                                     seq |-> infer_frame_seq,
                                     last |-> last_write])
             /\ UNCHANGED inf_woken
    /\ infer_lock' = "none"
    /\ UNCHANGED <<running, run_vis, g_stop, infer_frame_seq,
                   infer_overwrite_count, infer_latest_raw, captured_frames,
                   infer_frames_total, results_frame_seq, main_pc, last_write,
                   overwritten, bcast_woke>>
    /\ UNCHANGED <<poolVars, dmaVars, pollVars, loopVars, ioVars>>

\* pthread_cond_wait returns after a signal or broadcast: the lock is taken again
W_Wake ==
    /\ worker_pc = "wait"
    /\ inf_woken
    /\ infer_lock = "none"
    /\ infer_lock' = "worker"
    /\ run_vis' = VisAfterWorkerLock(run_vis)
    /\ inf_woken' = FALSE
    /\ worker_pc' = "check"
    /\ UNCHANGED <<running, g_stop, infer_has_new, infer_frame_seq,
                   infer_overwrite_count, infer_latest_raw, captured_frames,
                   infer_frames_total, results_frame_seq, main_pc, raw_local,
                   seq, processed, last_write, overwritten, bcast_woke>>
    /\ UNCHANGED <<poolVars, dmaVars, pollVars, loopVars, ioVars>>

\* pthread_cond_wait returns spuriously
W_SpuriousWake ==
    /\ worker_pc = "wait"
    /\ ~inf_woken
    /\ infer_lock = "none"
    /\ infer_lock' = "worker"
    /\ run_vis' = VisAfterWorkerLock(run_vis)
    /\ worker_pc' = "check"
    /\ UNCHANGED <<running, g_stop, infer_has_new, infer_frame_seq,
                   infer_overwrite_count, infer_latest_raw, captured_frames,
                   infer_frames_total, results_frame_seq, main_pc, inf_woken,
                   raw_local, seq, processed, last_write, overwritten,
                   bcast_woke>>
    /\ UNCHANGED <<poolVars, dmaVars, pollVars, loopVars, ioVars>>

\* infer_thread_main: the inference on raw_local ends and the result is
\* published under result_lock
W_InferDone ==
    /\ worker_pc = "infer"
    /\ infer_frames_total' = infer_frames_total + 1
    /\ results_frame_seq' = seq
    /\ worker_pc' = "head"
    /\ UNCHANGED <<running, run_vis, g_stop, infer_lock, infer_has_new,
                   infer_frame_seq, infer_overwrite_count, infer_latest_raw,
                   captured_frames, main_pc, inf_woken, raw_local, seq,
                   processed, last_write, overwritten, bcast_woke>>
    /\ UNCHANGED <<poolVars, dmaVars, pollVars, loopVars, ioVars>>

MainStep ==
    \/ M_LoopHead
    \/ M_PushLock
    \/ M_PushBody
    \/ M_Rest
    \/ C_ClearRunning
    \/ C_Lock
    \/ C_Broadcast
    \/ C_Join

WorkerLockStep ==
    \/ W_Start
    \/ W_LoopHead
    \/ W_Lock
    \/ W_Check
    \/ W_Wake

InferNext ==
    \/ Signal
    \/ MainStep
    \/ WorkerLockStep
    \/ W_SpuriousWake
    \/ W_InferDone

(***************************************************************************)
(* The completion poll loop of one chunk in fpga_dma_perform_transfer      *)
(***************************************************************************)
\* values of the three module parameters explored (they are plain ints that
\* the administrator may set to anything)
PollSleepChoices == {0 - 1, 0, 1, 3, 9}
PollSleepMaxChoices == {0, 4, 8}
PollBackoffChoices == {0, 1, 2, 3}
\* msecs_to_jiffies(dma_timeout_ms) for the timeouts explored
TimeoutJiffiesChoices == 0..MaxTimeoutJiffies

ClampSleep_None(cur, max) == cur

\* if (poll_sleep_max_us > 0 && poll_sleep_cur_us > poll_sleep_max_us)
\*     poll_sleep_cur_us = poll_sleep_max_us;
ClampSleep(cur, max) == IF max > 0 /\ cur > max THEN max ELSE cur

\* the condition under which a sleeping pass counts towards the next doubling
BackoffApplies(cur, max, polls) == polls > 0 /\ max > 0 /\ cur < max

\* poll_sleep_cur_us <<= 1, then capped at the ceiling
NextSleep(cur, max) == IF 2 * cur > max THEN max ELSE 2 * cur

TimeAfter_Never(a, b) == FALSE

\* time_after(a, b): a is later than b
TimeAfter(a, b) == a > b

\* the poll loop is not running
PollIdle ==
    /\ dma_poll_sleep_us = 5
    /\ dma_poll_sleep_max_us = 80
    /\ dma_poll_backoff_polls = 8
    /\ dma_timeout_jiffies = 0
    /\ poll_pc = "idle"
    /\ poll_sleep_cur_us = 0
    /\ poll_count = 0
    /\ sleeps = <<>>
    /\ spins = 0
    /\ jiffies = 0
    /\ deadline = 0
    /\ poll_pending = FALSE
    /\ poll_ret = "none"

\* the sentinels of a chunk are written and the command is issued, with some
\* setting of the module parameters
PollInit ==
    /\ dma_poll_sleep_us \in PollSleepChoices
    /\ dma_poll_sleep_max_us \in PollSleepMaxChoices
    /\ dma_poll_backoff_polls \in PollBackoffChoices
    /\ dma_timeout_jiffies \in TimeoutJiffiesChoices
    /\ poll_pc = "idle"
    /\ poll_sleep_cur_us = 0
    /\ poll_count = 0
    /\ sleeps = <<>>
    /\ spins = 0
    /\ jiffies = 0
    /\ deadline = 0
    /\ poll_pending = TRUE
    /\ poll_ret = "none"

\* the module parameters, which no step of the loop changes
pollConfig ==
    <<dma_poll_sleep_us, dma_poll_sleep_max_us, dma_poll_backoff_polls,
      dma_timeout_jiffies>>

\* the locals of the chunk: poll_sleep_cur_us = dma_poll_sleep_us,
\* poll_count = 0, and deadline = jiffies + msecs_to_jiffies(dma_timeout_ms)
PollStart ==
    /\ poll_pc = "idle"
    /\ poll_sleep_cur_us' = dma_poll_sleep_us
    /\ poll_count' = 0
    /\ deadline' = jiffies + dma_timeout_jiffies
    /\ poll_pc' = "poll"
    /\ UNCHANGED <<pollConfig, sleeps, spins, jiffies, poll_pending, poll_ret>>
    /\ UNCHANGED <<poolVars, dmaVars, inferVars, loopVars, ioVars>>

\* one pass of the loop body with a sentinel still in place and the deadline
\* not passed: spin, or sleep and perhaps back off. The log of the sleeps and
\* the count of the spins stop growing at MaxPolls.
PollPass ==
    /\ poll_pc = "poll"
    /\ poll_pending
    /\ ~TimeAfter(jiffies, deadline)
    /\ IF poll_sleep_cur_us <= 0
       THEN /\ spins' = IF spins < MaxPolls THEN spins + 1 ELSE spins
            /\ UNCHANGED <<poll_sleep_cur_us, poll_count, sleeps>>
       ELSE LET c == ClampSleep(poll_sleep_cur_us, dma_poll_sleep_max_us) IN
            /\ sleeps' = IF Len(sleeps) < MaxPolls THEN Append(sleeps, c)
                                                   ELSE sleeps
            /\ IF BackoffApplies(c, dma_poll_sleep_max_us, dma_poll_backoff_polls)
               THEN IF poll_count + 1 >= dma_poll_backoff_polls
                    THEN /\ poll_count' = 0
                         /\ poll_sleep_cur_us' = NextSleep(c, dma_poll_sleep_max_us)
                    ELSE /\ poll_count' = poll_count + 1
                         /\ poll_sleep_cur_us' = c
               ELSE /\ poll_sleep_cur_us' = c
                    /\ UNCHANGED poll_count
            /\ UNCHANGED spins
    /\ UNCHANGED <<pollConfig, poll_pc, jiffies, deadline, poll_pending, poll_ret>>
    /\ UNCHANGED <<poolVars, dmaVars, inferVars, loopVars, ioVars>>

\* a pass finds a sentinel still in place and the deadline passed:
\* return -ETIMEDOUT
PollTimeout ==
    /\ poll_pc = "poll"
    /\ poll_pending
    /\ TimeAfter(jiffies, deadline)
    /\ poll_ret' = "ETIMEDOUT"
    /\ poll_pc' = "done"
    /\ UNCHANGED <<pollConfig, poll_sleep_cur_us, poll_count, sleeps, spins,
                   jiffies, deadline, poll_pending>>
    /\ UNCHANGED <<poolVars, dmaVars, inferVars, loopVars, ioVars>>

\* the loop condition finds every sentinel overwritten: the chunk is complete
PollExit ==
    /\ poll_pc = "poll"
    /\ ~poll_pending
    /\ poll_ret' = "ok"
    /\ poll_pc' = "done"
    /\ UNCHANGED <<pollConfig, poll_sleep_cur_us, poll_count, sleeps, spins,
                   jiffies, deadline, poll_pending>>
    /\ UNCHANGED <<poolVars, dmaVars, inferVars, loopVars, ioVars>>

\* the device writes the last bytes of the chunk over the sentinels
PollDevOverwrite ==
    /\ poll_pc \in {"idle", "poll"}
    /\ poll_pending
    /\ poll_pending' = FALSE
    /\ UNCHANGED <<pollConfig, poll_pc, poll_sleep_cur_us, poll_count, sleeps,
                   spins, jiffies, deadline, poll_ret>>
    /\ UNCHANGED <<poolVars, dmaVars, inferVars, loopVars, ioVars>>

\* the timer interrupt: jiffies++ (followed while the chunk is polled, until
\* the deadline has passed)
JiffiesTick ==
    /\ poll_pc = "poll"
    /\ jiffies <= deadline
    /\ jiffies' = jiffies + 1
    /\ UNCHANGED <<pollConfig, poll_pc, poll_sleep_cur_us, poll_count, sleeps,
                   spins, deadline, poll_pending, poll_ret>>
    /\ UNCHANGED <<poolVars, dmaVars, inferVars, loopVars, ioVars>>

\* the steps of the thread that runs the transfer
PollThreadStep ==
    \/ PollStart
    \/ PollPass
    \/ PollTimeout
    \/ PollExit

PollNext ==
    \/ PollThreadStep
    \/ PollDevOverwrite
    \/ JiffiesTick

(***************************************************************************)
(* The capture loop of the display programs: main of                       *)
(* ARM/fpga_lpr_display.c ("lpr") and main of the first program of         *)
(* unnamed/part_003 ("display"), with the renderer that holds the pushed   *)
(* buffers and runs frame_release_notify when it drops one                 *)
(***************************************************************************)
FPGA_PIXEL_FORMAT_BGR565 == 0
FPGA_PIXEL_FORMAT_BGRX8888 == 1
\* a pixel_format value that is neither of the two
PixelFormatOther == 7

\* what FPGA_DMA_GET_INFO may report: the two supported layouts, a format
\* field that contradicts frame_bpp, an unknown format with 3 bytes per pixel,
\* and two other resolutions
InfoChoices ==
    { [frame_width |-> w, frame_height |-> h, frame_bpp |-> b, pixel_format |-> f] :
        w \in {FPGA_FRAME_WIDTH}, h \in {FPGA_FRAME_HEIGHT},
        b \in {FPGA_FRAME_BPP_BGR565, 3, FPGA_FRAME_BPP_BGRX8888},
        f \in {FPGA_PIXEL_FORMAT_BGR565, FPGA_PIXEL_FORMAT_BGRX8888, PixelFormatOther} }
    \cup
    { [frame_width |-> 1920, frame_height |-> 1080,
       frame_bpp |-> FPGA_FRAME_BPP_BGR565, pixel_format |-> FPGA_PIXEL_FORMAT_BGR565],
      [frame_width |-> FPGA_FRAME_WIDTH, frame_height |-> 1080,
       frame_bpp |-> FPGA_FRAME_BPP_BGR565, pixel_format |-> FPGA_PIXEL_FORMAT_BGR565] }

\* ticket->idx = -1; ticket->generation = 0
NoTicket == [idx |-> 0 - 1, generation |-> 0]

\* init_fpga_dma of part_003: frame_bpp after the pixel_format fix-up
DerivedBpp(inf) ==
    IF inf.pixel_format = FPGA_PIXEL_FORMAT_BGRX8888 THEN 4
    ELSE IF inf.pixel_format = FPGA_PIXEL_FORMAT_BGR565 THEN 2
    ELSE inf.frame_bpp

\* init_fpga_dma of part_003: pixel_format after the fix-up
DerivedFormat(inf) ==
    IF inf.pixel_format \in {FPGA_PIXEL_FORMAT_BGRX8888, FPGA_PIXEL_FORMAT_BGR565}
    THEN inf.pixel_format
    ELSE IF inf.frame_bpp = 4 THEN FPGA_PIXEL_FORMAT_BGRX8888
    ELSE IF inf.frame_bpp = 2 THEN FPGA_PIXEL_FORMAT_BGR565
    ELSE inf.pixel_format

GeometryOk_Always(p, inf) == TRUE

\* the geometry test of init_fpga_dma: 1280x720 with 2 bytes per pixel in
\* fpga_lpr_display.c; 1280x720 with a derived 2 or 4 bytes per pixel in part_003
GeometryOk(p, inf) ==
    /\ inf.frame_width = 1280
    /\ inf.frame_height = 720
    /\ IF p = "lpr" THEN inf.frame_bpp = 2
                    ELSE DerivedBpp(inf) = 2 \/ DerivedBpp(inf) = 4

\* ctx->source_is_bgrx
SourceIsBgrx(inf) ==
    DerivedFormat(inf) = FPGA_PIXEL_FORMAT_BGRX8888 \/ DerivedBpp(inf) = 4

\* ctx->zero_copy_mode = source_is_bgrx && io_mode == IO_MODE_MMAP; the lpr
\* program always copies
ZeroCopyMode(p, inf, mmap) == p = "display" /\ SourceIsBgrx(inf) /\ mmap

SlotCount_Always(zc, copy_buffers) == copy_buffers

\* init_copy_slots: slot_count = zero_copy_mode ? 1 : opt.copy_buffers
SlotCount(zc, copy_buffers) == IF zc THEN 1 ELSE copy_buffers

\* the order of the loop body: zero-copy acquires the slot before the transfer
NextAfterHead(zc) == IF zc THEN "acquire" ELSE "trigger"

NextAfterTrigger(zc) == IF zc THEN "build" ELSE "acquire"

NextAfterAcquire(zc) == IF zc THEN "trigger" ELSE "build"

\* where a pass of the for(;;) body of acquire_free_slot starts: part_003
\* processes events and tests ctx->running first, fpga_lpr_display.c does not
AcquirePassStart(p) == IF p = "display" THEN "events" ELSE "scan"

\* release_slot_ticket: the slots after the call
SlotsAfterRelease(sl, n, t) ==
    IF ReleaseMatches(sl, n, t) THEN FreeSlot(sl, t.idx) ELSE sl

ReleasedFramesAfter_Never(sl, n, t, count_release, c) == c

\* release_slot_ticket: released_frames after the call
ReleasedFramesAfter(sl, n, t, count_release, c) ==
    IF ReleaseMatches(sl, n, t) /\ count_release THEN c + 1 ELSE c

SlotsAfterPushFailure_Leak(sl, n, t) == sl

\* main, flow != GST_FLOW_OK: release_slot_ticket(&ctx, &ticket, false)
SlotsAfterPushFailure(sl, n, t) == SlotsAfterRelease(sl, n, t)

\* what one run of frame_release_notify did: the ticket of its cookie,
\* whether the buffer had been accepted by the renderer, whether the release
\* freed the slot, and by how much released_frames grew
CallbackRecord(sl, n, t, accepted) ==
    [ticket |-> t,
     ok |-> accepted,
     eff |-> ReleaseMatches(sl, n, t),
     inc |-> ReleasedFramesAfter(sl, n, t, TRUE, 0)]

\* ret = 0, the statement between the end of the while loop and the out label
RetAfterLoop == 0

Break_Continue == "head"

\* break: a failure inside the loop body leaves the loop for cleanup
Break == "out"

\* the configuration, which no step changes
loopConfig == <<program, info, opt_io_mmap, opt_copy_buffers, opt_timeout_ms>>

\* the variables the capture loop does not use
loopFrame ==
    <<acq_pc, call_us, handouts, acq_calls, acq_returns, last_ret,
      released_once, freed_in_call, last_op,
      run_vis, infer_lock, infer_has_new, infer_frame_seq,
      infer_overwrite_count, infer_latest_raw, infer_frames_total,
      results_frame_seq, main_pc, worker_pc, inf_woken, raw_local, seq,
      processed, last_write, overwritten, bcast_woke,
      dmaVars, pollVars, ioVars>>

\* the capture loop does not run
LoopIdle ==
    /\ program = "none"
    /\ info = [frame_width |-> 0, frame_height |-> 0, frame_bpp |-> 0,
               pixel_format |-> 0]
    /\ opt_io_mmap = FALSE
    /\ opt_copy_buffers = MIN_COPY_BUFFERS
    /\ zero_copy_mode = FALSE
    /\ loop_pc = "off"
    /\ ticket = NoTicket
    /\ in_flight = {}
    /\ pushed_frames = 0
    /\ dma_triggers = 0
    /\ fault = "none"
    /\ ret = 1
    /\ cb_log = <<>>
    /\ stop_at_wake = FALSE

\* main has zeroed ctx, set ctx.running and parsed the options; the device
\* will report some geometry
LoopInit ==
    /\ program \in {"lpr", "display"}
    /\ info \in InfoChoices
    /\ opt_io_mmap \in (IF program = "lpr" THEN {FALSE} ELSE BOOLEAN)
    /\ opt_copy_buffers \in MIN_COPY_BUFFERS..MaxSlots
    /\ opt_timeout_ms \in TimeoutMsChoices
    /\ zero_copy_mode = FALSE
    /\ loop_pc = "init"
    /\ ticket = NoTicket
    /\ in_flight = {}
    /\ pushed_frames = 0
    /\ dma_triggers = 0
    /\ fault = "none"
    /\ ret = 1
    /\ cb_log = <<>>
    /\ stop_at_wake = FALSE
    /\ slot_count = 0
    /\ slots = [i \in {} |-> [in_use |-> FALSE, generation |-> 0]]
    /\ released_frames = 0
    /\ slot_wait_timeout_count = 0
    /\ now = 0
    /\ cond_signalled = FALSE
    /\ deadline_us = 0
    /\ wake_us = 0
    /\ running = TRUE
    /\ g_stop = FALSE
    /\ captured_frames = 0
    /\ acq_pc = "idle"
    /\ call_us = 0
    /\ handouts = <<>>
    /\ acq_calls = 0
    /\ acq_returns = 0
    /\ last_ret = [res |-> 0, t_call |-> 0, t_ret |-> 0]
    /\ released_once = {}
    /\ freed_in_call = FALSE
    /\ last_op = [op |-> "init", k |-> 0, again |-> FALSE]
    /\ run_vis = "sync"
    /\ infer_lock = "none"
    /\ infer_has_new = FALSE
    /\ infer_frame_seq = 0
    /\ infer_overwrite_count = 0
    /\ infer_latest_raw = 0
    /\ infer_frames_total = 0
    /\ results_frame_seq = 0
    /\ main_pc = "off"
    /\ worker_pc = "off"
    /\ inf_woken = FALSE
    /\ raw_local = 0
    /\ seq = 0
    /\ processed = <<>>
    /\ last_write = [frame |-> 0, seq |-> 0]
    /\ overwritten = {}
    /\ bcast_woke = FALSE

\* main up to the loop: init_fpga_dma validates the geometry the device reports,
\* init_copy_slots sizes the pool; ok stands for every other step (open, ioctl,
\* mmap, malloc, the models, the pipeline) succeeding. A failure is goto out.
L_Startup ==
    /\ loop_pc = "init"
    /\ \E ok \in BOOLEAN :
        LET go == ok /\ GeometryOk(program, info)
            zc == ZeroCopyMode(program, info, opt_io_mmap)
            n == SlotCount(zc, opt_copy_buffers)
        IN
        /\ zero_copy_mode' = IF go THEN zc ELSE zero_copy_mode
        /\ slot_count' = IF go THEN n ELSE slot_count
        /\ slots' =
               IF go THEN [i \in 0..(n - 1) |-> [in_use |-> FALSE, generation |-> 0]]
               ELSE slots
        /\ loop_pc' = IF go THEN "head" ELSE "out"
    /\ UNCHANGED ret
    /\ UNCHANGED <<released_frames, slot_wait_timeout_count, now,
                   cond_signalled, deadline_us, wake_us, running, g_stop,
                   captured_frames, ticket, in_flight, pushed_frames,
                   dma_triggers, fault, cb_log, stop_at_wake>>
    /\ UNCHANGED <<loopConfig, loopFrame>>

\* the head of while (ctx.running): g_stop clears running, an error or EOS on
\* the bus clears it too (handle_bus_messages; process_events in part_003), and
\* either breaks out of the loop
L_Head ==
    /\ loop_pc = "head"
    /\ \E bus_ok \in BOOLEAN :
        /\ dma_triggers < MaxFrames \/ g_stop \/ ~bus_ok
        /\ running' = IF g_stop \/ ~bus_ok THEN FALSE ELSE running
        /\ loop_pc' =
               IF ~running \/ g_stop \/ ~bus_ok THEN "out"
               ELSE NextAfterHead(zero_copy_mode)
    /\ ret' = IF loop_pc' = "out" THEN RetAfterLoop ELSE ret
    /\ UNCHANGED <<slot_count, slots, released_frames,
                   slot_wait_timeout_count, now, cond_signalled, deadline_us,
                   wake_us, g_stop, captured_frames, zero_copy_mode, ticket,
                   in_flight, pushed_frames, dma_triggers, fault, cb_log,
                   stop_at_wake>>
    /\ UNCHANGED <<loopConfig, loopFrame>>

\* trigger_frame_dma: the FPGA_DMA_READ_FRAME ioctl; a failure (the driver's
\* -ETIMEDOUT among them) breaks out of the loop, in zero-copy mode after
\* release_slot_ticket(&ticket, false)
L_Trigger ==
    /\ loop_pc = "trigger"
    /\ \E dma_ok \in BOOLEAN :
        /\ dma_triggers' = dma_triggers + 1
        /\ captured_frames' =
               IF dma_ok THEN captured_frames + 1 ELSE captured_frames
        /\ fault' = IF dma_ok THEN fault ELSE "dma"
        /\ slots' =
               IF ~dma_ok /\ zero_copy_mode
               THEN SlotsAfterRelease(slots, slot_count, ticket)
               ELSE slots
        /\ loop_pc' = IF dma_ok THEN NextAfterTrigger(zero_copy_mode) ELSE Break
    /\ ret' = IF loop_pc' = "out" THEN RetAfterLoop ELSE ret
    /\ UNCHANGED <<slot_count, released_frames, slot_wait_timeout_count, now,
                   cond_signalled, deadline_us, wake_us, running, g_stop,
                   zero_copy_mode, ticket, in_flight, pushed_frames, cb_log,
                   stop_at_wake>>
    /\ UNCHANGED <<loopConfig, loopFrame>>

\* acquire_free_slot, entry: the deadline is computed and the ticket reset
L_AcquireCall ==
    /\ loop_pc = "acquire"
    /\ deadline_us' = DeadlineUs(now, opt_timeout_ms)
    /\ ticket' = NoTicket
    /\ stop_at_wake' = FALSE
    /\ loop_pc' = AcquirePassStart(program)
    /\ UNCHANGED ret
    /\ UNCHANGED <<slot_count, slots, released_frames,
                   slot_wait_timeout_count, now, cond_signalled, wake_us,
                   running, g_stop, captured_frames, zero_copy_mode,
                   in_flight, pushed_frames, dma_triggers, fault, cb_log>>
    /\ UNCHANGED <<loopConfig, loopFrame>>

\* acquire_free_slot of part_003, top of the for(;;) body:
\* if (process_events(ctx, 10) < 0) return -1; if (!ctx->running) return -1;
\* and main breaks out of the loop on the -1
L_AcquireEvents ==
    /\ loop_pc = "events"
    /\ \E bus_ok \in BOOLEAN :
        /\ running' = IF g_stop \/ ~bus_ok THEN FALSE ELSE running
        /\ loop_pc' = IF ~running \/ g_stop \/ ~bus_ok THEN "out" ELSE "scan"
    /\ ret' = IF loop_pc' = "out" THEN RetAfterLoop ELSE ret
    /\ UNCHANGED <<slot_count, slots, released_frames,
                   slot_wait_timeout_count, now, cond_signalled, deadline_us,
                   wake_us, g_stop, captured_frames, zero_copy_mode, ticket,
                   in_flight, pushed_frames, dma_triggers, fault, cb_log,
                   stop_at_wake>>
    /\ UNCHANGED <<loopConfig, loopFrame>>

\* acquire_free_slot, one pass under slots_lock: take the first free slot, or
\* return -1 once the deadline has passed (main then breaks), or park on
\* slots_cond until wake_us
L_AcquireScan ==
    /\ loop_pc = "scan"
    /\ LET i == ScanFreeSlot(slots, slot_count)
           d == ScanDecision(i, now, deadline_us)
       IN
       /\ slots' = IF d = "take" THEN HandOut(slots, i) ELSE slots
       /\ ticket' = IF d = "take" THEN TicketOf(HandOut(slots, i), i) ELSE ticket
       /\ slot_wait_timeout_count' =
              IF d = "timeout" THEN CountTimeout(slot_wait_timeout_count)
              ELSE slot_wait_timeout_count
       /\ fault' = IF d = "timeout" THEN "acquire" ELSE fault
       /\ wake_us' = IF d = "wait" THEN WakeUs(now, deadline_us) ELSE wake_us
       /\ cond_signalled' = IF d = "wait" THEN FALSE ELSE cond_signalled
       /\ loop_pc' =
              IF d = "take" THEN NextAfterAcquire(zero_copy_mode)
              ELSE IF d = "timeout" THEN Break
              ELSE "wait"
    /\ ret' = IF loop_pc' = "out" THEN RetAfterLoop ELSE ret
    /\ UNCHANGED <<slot_count, released_frames, now, deadline_us, running,
                   g_stop, captured_frames, zero_copy_mode, in_flight,
                   pushed_frames, dma_triggers, cb_log, stop_at_wake>>
    /\ UNCHANGED <<loopConfig, loopFrame>>

\* g_cond_wait_until returns: signalled, or the wake time was reached; the
\* for(;;) body starts again
L_AcquireWake ==
    /\ loop_pc = "wait"
    /\ cond_signalled \/ now >= wake_us
    /\ cond_signalled' = FALSE
    /\ stop_at_wake' = g_stop
    /\ loop_pc' = AcquirePassStart(program)
    /\ UNCHANGED ret
    /\ UNCHANGED <<slot_count, slots, released_frames,
                   slot_wait_timeout_count, now, deadline_us, wake_us,
                   running, g_stop, captured_frames, zero_copy_mode, ticket,
                   in_flight, pushed_frames, dma_triggers, fault, cb_log>>
    /\ UNCHANGED <<loopConfig, loopFrame>>

\* g_cond_wait_until may also return spuriously
L_AcquireSpuriousWake ==
    /\ loop_pc = "wait"
    /\ ~cond_signalled
    /\ now < wake_us
    /\ stop_at_wake' = g_stop
    /\ loop_pc' = AcquirePassStart(program)
    /\ UNCHANGED ret
    /\ UNCHANGED <<slot_count, slots, released_frames,
                   slot_wait_timeout_count, now, cond_signalled, deadline_us,
                   wake_us, running, g_stop, captured_frames, zero_copy_mode,
                   ticket, in_flight, pushed_frames, dma_triggers, fault,
                   cb_log>>
    /\ UNCHANGED <<loopConfig, loopFrame>>

\* build_frame_buffer: the cookie takes a copy of the ticket; if the wrap
\* fails the ticket is released uncounted and main breaks out of the loop
L_Build ==
    /\ loop_pc = "build"
    /\ \E buf_ok \in BOOLEAN :
        /\ slots' =
               IF buf_ok THEN slots ELSE SlotsAfterRelease(slots, slot_count, ticket)
        /\ fault' = IF buf_ok THEN fault ELSE "build"
        /\ loop_pc' = IF buf_ok THEN "push" ELSE Break
    /\ ret' = IF loop_pc' = "out" THEN RetAfterLoop ELSE ret
    /\ UNCHANGED <<slot_count, released_frames, slot_wait_timeout_count, now,
                   cond_signalled, deadline_us, wake_us, running, g_stop,
                   captured_frames, zero_copy_mode, ticket, in_flight,
                   pushed_frames, dma_triggers, cb_log, stop_at_wake>>
    /\ UNCHANGED <<loopConfig, loopFrame>>

\* gst_app_src_push_buffer and what main does with its result. The call takes
\* the buffer over in either case. Accepted: the renderer holds it and
\* pushed_frames is counted. Refused: the renderer drops it, so that
\* frame_release_notify runs inside the call (sync) or at some later time, and
\* main calls release_slot_ticket(&ticket, false) and breaks out of the loop.
L_Push ==
    /\ loop_pc = "push"
    /\ \E flow_ok \in BOOLEAN, sync \in BOOLEAN :
        LET cb_now == ~flow_ok /\ sync
            cb_slots == IF cb_now THEN SlotsAfterRelease(slots, slot_count, ticket)
                                   ELSE slots
        IN
        /\ slots' =
               IF flow_ok THEN slots
               ELSE SlotsAfterPushFailure(cb_slots, slot_count, ticket)
        /\ released_frames' =
               IF cb_now
               THEN ReleasedFramesAfter(slots, slot_count, ticket, TRUE, released_frames)
               ELSE released_frames
        /\ cb_log' =
               IF cb_now
               THEN Append(cb_log, CallbackRecord(slots, slot_count, ticket, FALSE))
               ELSE cb_log
        /\ in_flight' =
               IF cb_now THEN in_flight
               ELSE in_flight \cup {[ticket |-> ticket, ok |-> flow_ok]}
        /\ pushed_frames' = IF flow_ok THEN pushed_frames + 1 ELSE pushed_frames
        /\ fault' = IF flow_ok THEN fault ELSE "push"
        /\ loop_pc' = IF flow_ok THEN "head" ELSE Break
    /\ ret' = IF loop_pc' = "out" THEN RetAfterLoop ELSE ret
    /\ UNCHANGED <<slot_count, slot_wait_timeout_count, now, cond_signalled,
                   deadline_us, wake_us, running, g_stop, captured_frames,
                   zero_copy_mode, ticket, dma_triggers, stop_at_wake>>
    /\ UNCHANGED <<loopConfig, loopFrame>>

\* the renderer is done with a buffer: frame_release_notify runs, on whatever
\* thread dropped the last reference, and calls
\* release_slot_ticket(cookie->ctx, &cookie->ticket, true)
R_Callback ==
    /\ loop_pc # "done"
    /\ \E b \in in_flight :
        /\ slots' = SlotsAfterRelease(slots, slot_count, b.ticket)
        /\ released_frames' =
               ReleasedFramesAfter(slots, slot_count, b.ticket, TRUE, released_frames)
        /\ cond_signalled' =
               IF ReleaseMatches(slots, slot_count, b.ticket) /\ loop_pc = "wait"
               THEN TRUE
               ELSE cond_signalled
        /\ in_flight' = in_flight \ {b}
        /\ cb_log' =
               Append(cb_log, CallbackRecord(slots, slot_count, b.ticket, b.ok))
    /\ UNCHANGED ret
    /\ UNCHANGED <<slot_count, slot_wait_timeout_count, now, deadline_us,
                   wake_us, running, g_stop, captured_frames, zero_copy_mode,
                   loop_pc, ticket, pushed_frames, dma_triggers, fault,
                   stop_at_wake>>
    /\ UNCHANGED <<loopConfig, loopFrame>>

\* cleanup: gst_element_set_state(GST_STATE_NULL) has made the pipeline drop
\* every buffer it held; fpga_lpr_display.c also clears ctx->running
L_Cleanup ==
    /\ loop_pc = "out"
    /\ in_flight = {}
    /\ running' = IF program = "lpr" THEN FALSE ELSE running
    /\ loop_pc' = "done"
    /\ UNCHANGED ret
    /\ UNCHANGED <<slot_count, slots, released_frames,
                   slot_wait_timeout_count, now, cond_signalled, deadline_us,
                   wake_us, g_stop, captured_frames, zero_copy_mode, ticket,
                   in_flight, pushed_frames, dma_triggers, fault, cb_log,
                   stop_at_wake>>
    /\ UNCHANGED <<loopConfig, loopFrame>>

\* signal_handler: SIGINT or SIGTERM arrives while the program runs
LoopSignal ==
    /\ loop_pc \notin {"off", "done"}
    /\ ~g_stop
    /\ g_stop' = TRUE
    /\ UNCHANGED ret
    /\ UNCHANGED <<slot_count, slots, released_frames,
                   slot_wait_timeout_count, now, cond_signalled, deadline_us,
                   wake_us, running, captured_frames, zero_copy_mode, loop_pc,
                   ticket, in_flight, pushed_frames, dma_triggers, fault,
                   cb_log, stop_at_wake>>
    /\ UNCHANGED <<loopConfig, loopFrame>>

\* the clock advances while main is parked in acquire_free_slot (a deadline is
\* relative to the time of the call, so time spent elsewhere changes nothing)
LoopTick == loop_pc = "wait" /\ Tick

LoopNext ==
    \/ LoopTick
    \/ LoopSignal
    \/ L_Startup
    \/ L_Head
    \/ L_Trigger
    \/ L_AcquireCall
    \/ L_AcquireEvents
    \/ L_AcquireScan
    \/ L_AcquireWake
    \/ L_AcquireSpuriousWake
    \/ L_Build
    \/ L_Push
    \/ R_Callback
    \/ L_Cleanup

(***************************************************************************)
(* The FPGA_DMA_READ_FRAME ioctl of the driver: fpga_dma_ioctl called by   *)
(* several processes at once, each call running fpga_dma_perform_transfer  *)
(* under dev->dma_lock and copying dev->dma_buf to its caller afterwards   *)
(***************************************************************************)
\* the processes that call the ioctl, one call each
Callers == 1..MaxCallers

\* no owner of dev->dma_lock
NoOwner == 0

\* transfer.size values: 0 (use the default), one and more chunks, and one
\* byte more than the buffer holds
IoSizeChoices ==
    {0} \cup {p * BOUNDARY + 2 * SENTINEL_BYTES : p \in 0..(MaxPages - 1)}
        \cup {DMA_BUF_SIZE + 1}

\* the transfer.size of every caller; at most MaxDefaultCalls of them ask for
\* the default size, a whole frame of several hundred chunks
IoSizeInputs ==
    {f \in [Callers -> IoSizeChoices] :
        Cardinality({p \in Callers : f[p] = 0}) <= MaxDefaultCalls}

\* fpga_dma_bpp_from_format
BppFromFormat(pixel_format) ==
    IF pixel_format = FPGA_PIXEL_FORMAT_BGRX8888 THEN FPGA_FRAME_BPP_BGRX8888
    ELSE FPGA_FRAME_BPP_BGR565

\* fpga_dma_normalize_info_layout and fpga_dma_default_frame_size:
\* frame_stride * frame_height with frame_stride = frame_width * bpp
DefaultFrameSize(pixel_format) ==
    (FPGA_FRAME_WIDTH * BppFromFormat(pixel_format)) * FPGA_FRAME_HEIGHT

\* size = transfer.size > 0 ? transfer.size : default_size
RequestedSize(tsize, pixel_format) ==
    IF tsize > 0 THEN tsize ELSE DefaultFrameSize(pixel_format)

SizeTooBig_Never(size, buf_size) == FALSE

\* if (size > dev->dma_buf_size)
SizeTooBig(size, buf_size) == size > buf_size

LockFree_Always(lock) == TRUE

\* mutex_lock returns only when no one holds the mutex
LockFree(lock) == lock = NoOwner

\* what a range of dev->dma_buf holds: who wrote it last, and whether it is
\* frame data written by the device for that call or a sentinel of that call
DataOf(p) == [by |-> p, kind |-> "data"]
SentinelOf(p) == [by |-> p, kind |-> "sentinel"]
Untouched == [by |-> NoOwner, kind |-> "none"]

\* dev->dma_buf after the bytes lo..hi-1 were overwritten with tag: the buffer
\* is kept as a set of disjoint ranges [lo, hi, tag]
Overlay(buf, lo, hi, tag) ==
    LET left == {[lo |-> s.lo, hi |-> Min(s.hi, lo), tag |-> s.tag] :
                    s \in {x \in buf : x.lo < lo}}
        right == {[lo |-> (IF s.lo > hi THEN s.lo ELSE hi), hi |-> s.hi, tag |-> s.tag] :
                    s \in {x \in buf : x.hi > hi}}
        joinL == {s \in left : s.hi = lo /\ s.tag = tag}
        joinR == {s \in right : s.lo = hi /\ s.tag = tag}
        newLo == IF joinL = {} THEN lo ELSE (CHOOSE s \in joinL : TRUE).lo
        newHi == IF joinR = {} THEN hi ELSE (CHOOSE s \in joinR : TRUE).hi
    IN  ((left \ joinL) \cup (right \ joinR))
            \cup {[lo |-> newLo, hi |-> newHi, tag |-> tag]}

\* the sentinel words of a chunk: chunk_tail1 and chunk_tail0 when the chunk
\* has at least 8 bytes, else chunk_tail0 alone
SentinelLo(off, c) == IF HasTail1(c) THEN ChunkTail1(off, c) ELSE ChunkTail0(off, c)

\* copy_to_user(user_buf, dev->dma_buf, size): the tags of the bytes 0..size-1
\* of the buffer at the time of the copy
CopiedTags(buf, size, p) == {s.tag : s \in {x \in buf : x.lo < size}}

\* the log of the chunk commands the device received, as runs of consecutive
\* commands of one call
RunsAfterCommand(runs, p) ==
    IF runs # <<>> /\ runs[Len(runs)].by = p
    THEN [runs EXCEPT ![Len(runs)].n = @ + 1]
    ELSE Append(runs, [by |-> p, n |-> 1])

\* no process has opened the device
IoIdle ==
    /\ dev_pixel_format = FPGA_PIXEL_FORMAT_BGR565
    /\ dma_lock = NoOwner
    /\ io_pc = [p \in Callers |-> "off"]
    /\ transfer_size = [p \in Callers |-> 0]
    /\ user_buf = [p \in Callers |-> FALSE]
    /\ io_size = [p \in Callers |-> 0]
    /\ io_remaining = [p \in Callers |-> 0]
    /\ io_addr = [p \in Callers |-> 0]
    /\ io_ret = [p \in Callers |-> "none"]
    /\ io_locked = [p \in Callers |-> FALSE]
    /\ io_copied = [p \in Callers |-> {}]
    /\ io_buf = {}
    /\ hw_runs = <<>>

\* the driver is probed (the buffer is allocated page-aligned, the frame
\* layout follows the module parameter dma_pixel_format) and every process is
\* about to call ioctl(FPGA_DMA_READ_FRAME) with some transfer.size
IoInit ==
    /\ dev_pixel_format \in {FPGA_PIXEL_FORMAT_BGR565, FPGA_PIXEL_FORMAT_BGRX8888}
    /\ dma_lock = NoOwner
    /\ io_pc = [p \in Callers |-> "entry"]
    /\ transfer_size \in IoSizeInputs
    /\ user_buf = [p \in Callers |-> FALSE]
    /\ io_size = [p \in Callers |-> 0]
    /\ io_remaining = [p \in Callers |-> 0]
    /\ io_addr = [p \in Callers |-> 0]
    /\ io_ret = [p \in Callers |-> "none"]
    /\ io_locked = [p \in Callers |-> FALSE]
    /\ io_copied = [p \in Callers |-> {}]
    /\ io_buf = {[lo |-> 0, hi |-> DMA_BUF_SIZE, tag |-> Untouched]}
    /\ hw_runs = <<>>

ioConfig == <<dev_pixel_format, transfer_size>>

\* case FPGA_DMA_READ_FRAME up to the size check: copy_from_user may fail
\* (-EFAULT); the size is the explicit or the default one; a size above
\* dev->dma_buf_size is refused with -EINVAL
IoEntry(p) ==
    /\ io_pc[p] = "entry"
    /\ \E from_user_ok \in BOOLEAN :
        LET size == RequestedSize(transfer_size[p], dev_pixel_format) IN
        IF ~from_user_ok
        THEN /\ io_ret' = [io_ret EXCEPT ![p] = "EFAULT"]
             /\ io_pc' = [io_pc EXCEPT ![p] = "done"]
             /\ UNCHANGED io_size
        ELSE IF SizeTooBig(size, DMA_BUF_SIZE)
        THEN /\ io_ret' = [io_ret EXCEPT ![p] = "EINVAL"]
             /\ io_pc' = [io_pc EXCEPT ![p] = "done"]
             /\ io_size' = [io_size EXCEPT ![p] = size]
        ELSE /\ io_pc' = [io_pc EXCEPT ![p] = "lock"]
             /\ io_size' = [io_size EXCEPT ![p] = size]
             /\ UNCHANGED io_ret
    /\ UNCHANGED <<dma_lock, user_buf, io_remaining, io_addr, io_locked,
                   io_copied, io_buf, hw_runs>>
    /\ UNCHANGED ioConfig
    /\ UNCHANGED <<poolVars, dmaVars, inferVars, pollVars, loopVars>>

\* mutex_lock(&dev->dma_lock) and the entry of fpga_dma_perform_transfer:
\* remaining = size, current_addr = dev->dma_handle
IoLock(p) ==
    /\ io_pc[p] = "lock"
    /\ LockFree(dma_lock)
    /\ dma_lock' = p
    /\ io_locked' = [io_locked EXCEPT ![p] = TRUE]
    /\ io_remaining' = [io_remaining EXCEPT ![p] = io_size[p]]
    /\ io_addr' = [io_addr EXCEPT ![p] = DmaBase]
    /\ io_pc' = [io_pc EXCEPT ![p] = "chunk"]
    /\ UNCHANGED <<user_buf, io_size, io_ret, io_copied, io_buf, hw_runs>>
    /\ UNCHANGED ioConfig
    /\ UNCHANGED <<poolVars, dmaVars, inferVars, pollVars, loopVars>>

\* one pass of the chunk loop up to the poll: the chunk is sized, its sentinel
\* words are written into dev->dma_buf, the address and command registers are
\* written
IoIssueChunk(p) ==
    /\ io_pc[p] = "chunk"
    /\ io_remaining[p] > 0
    /\ LET c == ChunkSize(io_addr[p], io_remaining[p])
           off == BufOffset(io_addr[p], DmaBase)
       IN
       /\ io_buf' = Overlay(io_buf, SentinelLo(off, c), off + c, SentinelOf(p))
       /\ hw_runs' = RunsAfterCommand(hw_runs, p)
    /\ io_pc' = [io_pc EXCEPT ![p] = "poll"]
    /\ UNCHANGED <<dma_lock, user_buf, io_size, io_remaining, io_addr, io_ret,
                   io_locked, io_copied>>
    /\ UNCHANGED ioConfig
    /\ UNCHANGED <<poolVars, dmaVars, inferVars, pollVars, loopVars>>

\* the device has written the chunk (its last words replace the sentinels) and
\* the poll loop ends: remaining -= chunk_size, current_addr += chunk_size
IoChunkDone(p) ==
    /\ io_pc[p] = "poll"
    /\ LET c == ChunkSize(io_addr[p], io_remaining[p])
           off == BufOffset(io_addr[p], DmaBase)
       IN
       /\ io_buf' = Overlay(io_buf, off, off + c, DataOf(p))
       /\ io_remaining' = [io_remaining EXCEPT ![p] = RemainingAfter(@, c)]
       /\ io_addr' = [io_addr EXCEPT ![p] = @ + c]
    /\ io_pc' = [io_pc EXCEPT ![p] = "chunk"]
    /\ UNCHANGED <<dma_lock, user_buf, io_size, io_ret, io_locked, io_copied,
                   hw_runs>>
    /\ UNCHANGED ioConfig
    /\ UNCHANGED <<poolVars, dmaVars, inferVars, pollVars, loopVars>>

\* the device never overwrites the sentinels and the deadline passes:
\* fpga_dma_perform_transfer returns -ETIMEDOUT
IoChunkTimeout(p) ==
    /\ io_pc[p] = "poll"
    /\ io_ret' = [io_ret EXCEPT ![p] = "ETIMEDOUT"]
    /\ io_pc' = [io_pc EXCEPT ![p] = "unlock"]
    /\ UNCHANGED <<dma_lock, user_buf, io_size, io_remaining, io_addr,
                   io_locked, io_copied, io_buf, hw_runs>>
    /\ UNCHANGED ioConfig
    /\ UNCHANGED <<poolVars, dmaVars, inferVars, pollVars, loopVars>>

\* fpga_dma_perform_transfer returns (0 when remaining reached 0) and
\* mutex_unlock(&dev->dma_lock)
IoUnlock(p) ==
    /\ \/ io_pc[p] = "chunk" /\ io_remaining[p] = 0
       \/ io_pc[p] = "unlock"
    /\ dma_lock' = NoOwner
    /\ io_pc' = [io_pc EXCEPT ![p] = IF io_ret[p] = "none" THEN "copy" ELSE "done"]
    /\ UNCHANGED <<user_buf, io_size, io_remaining, io_addr, io_ret, io_locked,
                   io_copied, io_buf, hw_runs>>
    /\ UNCHANGED ioConfig
    /\ UNCHANGED <<poolVars, dmaVars, inferVars, pollVars, loopVars>>

\* if (!ret): with a user buffer, copy_to_user(user_buf, dev->dma_buf, size),
\* which may fail (-EFAULT); then the transfer record goes back with result 0.
\* The copy is taken as one step: a copy that overlaps the writes of another
\* call sees no fewer foreign bytes than one made at a single instant.
IoCopy(p) ==
    /\ io_pc[p] = "copy"
    /\ \E ub \in BOOLEAN, to_user_ok \in BOOLEAN :
        /\ user_buf' = [user_buf EXCEPT ![p] = ub]
        /\ io_copied' =
               [io_copied EXCEPT
                   ![p] = IF ub /\ to_user_ok
                          THEN CopiedTags(io_buf, io_size[p], p)
                          ELSE @]
        /\ io_ret' = [io_ret EXCEPT ![p] = IF to_user_ok THEN "0" ELSE "EFAULT"]
    /\ io_pc' = [io_pc EXCEPT ![p] = "done"]
    /\ UNCHANGED <<dma_lock, io_size, io_remaining, io_addr, io_locked, io_buf,
                   hw_runs>>
    /\ UNCHANGED ioConfig
    /\ UNCHANGED <<poolVars, dmaVars, inferVars, pollVars, loopVars>>

IoNext ==
    \/ \E p \in Callers : IoEntry(p)
    \/ \E p \in Callers : IoLock(p)
    \/ \E p \in Callers : IoIssueChunk(p)
    \/ \E p \in Callers : IoChunkDone(p)
    \/ \E p \in Callers : IoChunkTimeout(p)
    \/ \E p \in Callers : IoUnlock(p)
    \/ \E p \in Callers : IoCopy(p)

(***************************************************************************)
(* The specifications                                                      *)
(***************************************************************************)
InferSpecInit == InferInit /\ PoolIdle /\ DmaIdle /\ PollIdle /\ LoopIdle /\ IoIdle

InferSpec == InferSpecInit /\ [][InferNext]_vars

\* every thread that can run does run, and an inference started does end
InferFairSpec ==
    InferSpec /\ SF_vars(MainStep) /\ SF_vars(WorkerLockStep) /\ WF_vars(W_InferDone)

\* as before, but an inference may take forever
InferStallSpec ==
    InferSpec /\ SF_vars(MainStep) /\ SF_vars(WorkerLockStep)

DmaSpecInit == DmaInit /\ PoolIdle /\ InferIdle /\ PollIdle /\ LoopIdle /\ IoIdle

PollSpecInit == PollInit /\ PoolIdle /\ DmaIdle /\ InferIdle /\ LoopIdle /\ IoIdle

PollSpec == PollSpecInit /\ [][PollNext]_vars

\* the thread that runs the transfer keeps running and the timer keeps ticking
PollFairSpec == PollSpec /\ WF_vars(PollThreadStep) /\ WF_vars(JiffiesTick)

LoopSpecInit == LoopInit /\ DmaIdle /\ PollIdle /\ IoIdle

LoopSpec == LoopSpecInit /\ [][LoopNext]_vars

IoSpecInit == IoInit /\ PoolIdle /\ DmaIdle /\ InferIdle /\ PollIdle /\ LoopIdle

IoSpec == IoSpecInit /\ [][IoNext]_vars

DmaSpec == DmaSpecInit /\ [][DmaNext]_vars

Init == PoolInit /\ DmaIdle /\ InferIdle /\ PollIdle /\ LoopIdle /\ IoIdle

Next == PoolNext

Spec == Init /\ [][Next]_vars

(***************************************************************************)
(* Properties of the slot pool                                             *)
(***************************************************************************)
\* the ticket of the release made by the last step
LastReleased == handouts[last_op.k]

\* C1: under every interleaving of acquire and release calls, the number of
\* hand-outs whose ticket is valid (slot in use under the ticket's generation)
\* never exceeds the pool capacity slot_count.
C1_AtMostNValid == Cardinality(ValidHandouts) <= slot_count

\* the pool is full again after at least one release
C1_Witness ==
    /\ slot_count >= 2
    /\ Cardinality(ValidHandouts) = slot_count
    /\ released_once # {}

\* C2: two distinct hand-outs whose tickets are valid at the same time never
\* carry the same (slot index, generation) pair.
C2_ValidTicketsDistinct ==
    \A j, k \in ValidHandouts : j # k => handouts[j] # handouts[k]

\* two tickets are valid at once, one of them on a slot handed out before
C2_Witness ==
    \E j, k \in ValidHandouts :
        /\ j # k
        /\ \E m \in DOMAIN handouts : m # k /\ handouts[m].idx = handouts[k].idx

\* C3: a release whose ticket generation differs from the slot's current
\* generation changes no in-use flag, no generation and not the released
\* counter, and every ticket that was valid stays valid.
C3_StaleReleaseNoOp ==
    [][ ( /\ last_op'.op = "release"
          /\ slots[handouts[last_op'.k].idx].generation
                # handouts[last_op'.k].generation )
        => ( /\ slots' = slots
             /\ released_frames' = released_frames
             /\ ValidHandouts' = ValidHandouts ) ]_vars

\* a stale ticket was released while a newer hand-out holds the slot
C3_Witness ==
    /\ last_op.op = "release"
    /\ slots[LastReleased.idx].generation # LastReleased.generation
    /\ slots[LastReleased.idx].in_use
    /\ released_frames > 0

\* C4: releasing a ticket that has been released before, at any later point
\* and under any interleaving, changes nothing in the pool.
C4_DoubleReleaseNoOp ==
    [][ ( /\ last_op'.op = "release"
          /\ last_op'.k \in released_once )
        => ( /\ slots' = slots
             /\ released_frames' = released_frames ) ]_vars

\* a ticket was released a second time after its slot was re-acquired
C4_Witness ==
    /\ last_op.op = "release"
    /\ last_op.again
    /\ \E m \in ValidHandouts : m > last_op.k /\ handouts[m].idx = LastReleased.idx

\* C5: with capacity 2 and no release, the third acquire (and any later one)
\* returns -1, and not before timeout_ms milliseconds have passed since the call.
C5_ThirdAcquireTimesOut ==
    (slot_count = 2 /\ released_once = {} /\ acq_returns >= 3)
        => ( /\ last_ret.res = -1
             /\ last_ret.t_ret - last_ret.t_call >= opt_timeout_ms * US_PER_MS )

\* the third acquire on a full pool of two has returned, not at call time 0
C5_Witness ==
    /\ slot_count = 2
    /\ released_once = {}
    /\ acq_returns = 3
    /\ last_ret.res = -1
    /\ last_ret.t_call > 0

\* C6: with capacity 2 and no release, the two successful acquires leave
\* slot_wait_timeout_count at 0 and the third acquire, which times out,
\* raises it by exactly 1.
C6_TimeoutCountedOnce ==
    (slot_count = 2 /\ released_once = {})
        => ( /\ (acq_returns <= 2 => slot_wait_timeout_count = 0)
             /\ (acq_returns = 3 => slot_wait_timeout_count = 1) )

\* the third acquire has timed out and was counted
C6_Witness ==
    /\ slot_count = 2
    /\ released_once = {}
    /\ acq_returns = 3
    /\ Len(handouts) = 2
    /\ slot_wait_timeout_count = 1

\* C16: an acquire returns -1 only if no release freed a slot while the call
\* was in progress: a matching release that frees a slot before the timeout
\* elapses makes the waiting acquire return a ticket.
C16_ReleaseDuringWaitGivesTicket ==
    (acq_pc = "idle" /\ acq_returns > 0 /\ last_ret.res = -1) => ~freed_in_call

\* an acquire found the pool full, waited, and got the slot a release freed
C16_Witness ==
    /\ last_op.op = "acquire_ok"
    /\ freed_in_call
    /\ last_ret.t_ret > last_ret.t_call
    /\ last_ret.t_ret >= last_ret.t_call + opt_timeout_ms * US_PER_MS

\* C17: a later hand-out of a slot happens only after the ticket of every
\* earlier hand-out of that slot has been released, so between an acquire and
\* its matching release nobody else is given the slot.
C17_ExclusiveUntilRelease ==
    \A j, k \in DOMAIN handouts :
        (j < k /\ handouts[j].idx = handouts[k].idx) => j \in released_once

\* a slot was handed out a second time, after its first ticket was released
C17_Witness ==
    \E j, k \in DOMAIN handouts :
        /\ j < k
        /\ handouts[j].idx = handouts[k].idx
        /\ Valid(handouts[k])
        /\ k \notin released_once

\* C18: a slot's generation changes only in a successful acquire of that
\* slot, by exactly +1; no release (matching, stale or repeated) changes any
\* generation.
C18_GenerationOnlyAtHandOut ==
    [][ \A i \in SlotIdx :
            slots'[i].generation # slots[i].generation
                => ( /\ last_op'.op = "acquire_ok"
                     /\ handouts'[last_op'.k].idx = i
                     /\ slots'[i].generation = slots[i].generation + 1 ) ]_vars

\* a matching release has just freed a slot that was handed out twice
C18_Witness ==
    /\ last_op.op = "release"
    /\ ~last_op.again
    /\ ~slots[LastReleased.idx].in_use
    /\ slots[LastReleased.idx].generation = LastReleased.generation
    /\ LastReleased.generation = 2

(***************************************************************************)
(* Properties of the chunked transfer                                      *)
(***************************************************************************)
\* C7: for every start address and total size, no emitted chunk has a byte
\* range [addr, addr + len) that contains bytes on both sides of a multiple
\* of 4096: its first and its last byte lie in the same 4 KiB page.
C7_NoChunkCrossesBoundary ==
    \A k \in DOMAIN chunks :
        chunks[k].addr \div BOUNDARY
            = (chunks[k].addr + chunks[k].len - 1) \div BOUNDARY

\* a chunk was cut short at a boundary and the transfer went on after it
C7_Witness ==
    \E k \in DOMAIN chunks :
        /\ chunks[k].addr % BOUNDARY # 0
        /\ (chunks[k].addr + chunks[k].len) % BOUNDARY = 0
        /\ k < Len(chunks)

\* C8: when the transfer returns 0, the lengths of the emitted chunks add up
\* to the requested total size.
C8_ChunkLengthsSumToTotal ==
    dma_pc = "done" => SumLen(chunks) = dma_size

\* an unaligned transfer of an odd size completed in three or more chunks
C8_Witness ==
    /\ dma_pc = "done"
    /\ dma_handle % BOUNDARY # 0
    /\ dma_size % 4 # 0
    /\ Len(chunks) >= 3

\* C9: a completed transfer of 1,843,200 bytes that starts at a 4096-aligned
\* address consists of exactly 450 chunks, each of 4096 bytes.
C9_FrameIs450FullChunks ==
    ( /\ dma_pc = "done"
      /\ dma_size = 1843200
      /\ dma_handle % BOUNDARY = 0 )
        => ( /\ Len(chunks) = 450
             /\ \A k \in DOMAIN chunks : chunks[k].len = 4096 )

\* the aligned full-frame transfer has completed
C9_Witness ==
    /\ dma_pc = "done"
    /\ dma_size = FPGA_FRAME_SIZE_BGR565
    /\ dma_handle % BOUNDARY = 0
    /\ chunk_num > 0

\* C10 as stated: the command word of a 4096-byte chunk carries 0 in its
\* length field.
C10_LengthFieldZero ==
    \A k \in DOMAIN chunks :
        chunks[k].len = 4096 => LenField(chunks[k].cmd) = 0

\* C10 amended: the command word of a 4096-byte (1024-word) chunk carries
\* 1023 (0x3FF, the length in words minus one) in its length field, and
\* neither 0 nor 1024.
C10_LengthFieldIsWordsMinusOne ==
    \A k \in DOMAIN chunks :
        chunks[k].len = 4096 => LenField(chunks[k].cmd) = 1023

\* a command for a full 4096-byte chunk has been issued
C10_Witness ==
    \E k \in DOMAIN chunks : chunks[k].len = DMA_MAX_LEN_BYTES /\ dma_pc = "poll"

\* C14 as stated: no emitted chunk has zero bytes, and a chunk that starts at
\* a 4096-aligned address has the full chunk size.
C14_AlignedChunkIsFullSize ==
    \A k \in DOMAIN chunks :
        /\ chunks[k].len > 0
        /\ (chunks[k].addr % BOUNDARY = 0 => chunks[k].len = DMA_MAX_LEN_BYTES)

\* C14 amended: no emitted chunk has zero bytes, and a chunk that starts at a
\* 4096-aligned address is not cut: it has min(remaining, DMA_MAX_LEN_BYTES)
\* bytes, which is the full chunk size whenever that many bytes remain.
C14_AlignedChunkIsNotCut ==
    \A k \in DOMAIN chunks :
        /\ chunks[k].len > 0
        /\ (chunks[k].addr % BOUNDARY = 0
                => chunks[k].len = Min(chunks[k].rem, DMA_MAX_LEN_BYTES))

\* a full chunk and then a shorter last chunk were issued at aligned addresses
C14_Witness ==
    \E j, k \in DOMAIN chunks :
        /\ chunks[j].addr % BOUNDARY = 0
        /\ chunks[j].len = DMA_MAX_LEN_BYTES
        /\ chunks[k].addr % BOUNDARY = 0
        /\ chunks[k].len < DMA_MAX_LEN_BYTES
        /\ chunks[k].len = chunks[k].rem

WordInside(t, off, len) ==
    /\ off <= t
    /\ t + SENTINEL_BYTES <= off + len
    /\ 0 <= t
    /\ t + SENTINEL_BYTES <= DMA_BUF_SIZE

\* C28: for every chunk issued, the one or two sentinel words lie entirely
\* inside the chunk's destination region and inside the DMA buffer.
C28_SentinelsInsideChunk ==
    \A k \in DOMAIN chunks :
        /\ WordInside(chunks[k].tail0, chunks[k].off, chunks[k].len)
        /\ chunks[k].tail1 # NullTail
              => WordInside(chunks[k].tail1, chunks[k].off, chunks[k].len)

\* a first chunk shorter than a word was issued: its sentinel starts before
\* the start of the buffer
C28_Witness ==
    /\ Len(chunks) = 1
    /\ chunks[1].off = 0
    /\ chunks[1].len < SENTINEL_BYTES
    /\ chunks[1].tail0 < 0

\* C29: the command of a chunk is issued only with its sentinels in place; a
\* chunk is counted complete only when none of its sentinels is left; and the
\* command of the next chunk is never issued before that.
C29_SentinelsBracketEachChunk ==
    /\ [][Len(chunks') > Len(chunks)
            => (sentinel0 = "set" /\ (HasTail1(chunk_size) => sentinel1 = "set"))]_vars
    /\ [][chunk_num' > chunk_num
            => (sentinel0 = "overwritten" /\ sentinel1 # "set")]_vars
    /\ [](Len(chunks) <= chunk_num + 1)

\* a chunk with two sentinels completed after the device overwrote both
C29_Witness ==
    /\ chunk_num >= 2
    /\ dma_pc = "chunk"
    /\ sentinel0 = "overwritten"
    /\ sentinel1 = "overwritten"


(***************************************************************************)
(* Properties of the inference mailbox and of the shutdown                 *)
(***************************************************************************)
\* 1 when the mailbox holds a frame the worker has not taken, else 0
Pending == IF infer_has_new THEN 1 ELSE 0

\* C11 as stated: when the program has finished, the overwrite counter equals
\* the number of frames pushed minus the number of frames the worker took.
C11_DroppedIsPushedMinusProcessed ==
    main_pc = "done"
        => infer_overwrite_count = infer_frame_seq - Len(processed)

\* C11 amended: at every moment the frames pushed are the frames overwritten,
\* the frames the worker took and the one frame (if any) still waiting in the
\* mailbox; the stated equality holds exactly when the mailbox is empty.
C11_PushedIsDroppedProcessedPending ==
    infer_frame_seq = infer_overwrite_count + Len(processed) + Pending

\* the program ended after an overwrite and a take, with a frame never taken
C11_Witness ==
    /\ main_pc = "done"
    /\ infer_has_new
    /\ infer_overwrite_count > 0
    /\ Len(processed) > 0

\* C12: the sequence numbers the worker took are strictly increasing (so none
\* is taken twice or out of order); gaps are allowed.
C12_ProcessedSeqStrictlyIncreasing ==
    \A i, j \in DOMAIN processed :
        i < j => processed[i].seq < processed[j].seq

\* the worker took two frames and skipped a sequence number between them
C12_Witness ==
    /\ Len(processed) >= 2
    /\ processed[2].seq > processed[1].seq + 1

\* C13: once the running flag is cleared, the main thread gets through cleanup
\* (it has left the capture loop) and the worker exits, so the join returns;
\* and after the broadcast the worker starts no further frame.
C13_ShutdownTerminatesBoth ==
    /\ (~running) ~> (main_pc = "done" /\ worker_pc = "exited")
    /\ [][(main_pc \in {"join", "done"}) => (processed' = processed)]_vars

\* the program ended and the broadcast had found the worker parked
C13_Witness ==
    /\ main_pc = "done"
    /\ worker_pc = "exited"
    /\ bcast_woke

\* C19: the worker never holds the mailbox lock while it runs inference, and a
\* push that has started completes even if the inference never ends.
C19_PushNotBlockedByInference ==
    /\ [](worker_pc = "infer" => infer_lock # "worker")
    /\ (main_pc = "push_lock") ~> (main_pc = "rest")

\* a push completed while the worker was still busy with an earlier frame
C19_Witness ==
    /\ worker_pc = "infer"
    /\ main_pc = "rest"
    /\ infer_frame_seq > seq

\* C20: every frame the worker took, and its sequence number, were those of
\* the last push at that time, and no frame that was overwritten in the
\* mailbox was ever taken.
C20_TakesLatestNeverOverwritten ==
    \A i \in DOMAIN processed :
        /\ processed[i].frame = processed[i].last.frame
        /\ processed[i].seq = processed[i].last.seq
        /\ processed[i].frame \notin overwritten

\* the worker took a frame whose predecessor had been overwritten
C20_Witness ==
    \E i \in DOMAIN processed :
        /\ processed[i].frame >= 2
        /\ (processed[i].frame - 1) \in overwritten

(***************************************************************************)
(* Properties of the completion poll loop                                  *)
(***************************************************************************)
\* C30 as stated: with a non-positive initial sleep the loop never sleeps;
\* otherwise the first sleep is the initial value, no sleep exceeds the
\* ceiling, and the sleep doubles (up to the ceiling) after every K polls.
C30_SleepStartsAtInitialDoublesToCeiling ==
    /\ dma_poll_sleep_us <= 0 => sleeps = <<>>
    /\ (dma_poll_sleep_us > 0 /\ dma_poll_backoff_polls > 0)
          => ( /\ sleeps # <<>> => sleeps[1] = dma_poll_sleep_us
               /\ \A n \in DOMAIN sleeps : sleeps[n] <= dma_poll_sleep_max_us
               /\ \A n \in 1..(Len(sleeps) - 1) :
                     sleeps[n + 1] =
                        IF n % dma_poll_backoff_polls = 0
                        THEN Min(2 * sleeps[n], dma_poll_sleep_max_us)
                        ELSE sleeps[n] )

\* the first sleep of a chunk, given the parameters
FirstSleep ==
    IF dma_poll_sleep_max_us > 0
    THEN Min(dma_poll_sleep_us, dma_poll_sleep_max_us)
    ELSE dma_poll_sleep_us

\* C30 amended: with a non-positive initial sleep the loop never sleeps.
\* Otherwise it never spins; the first sleep is the initial value, capped at
\* the ceiling when the ceiling is positive; with a positive ceiling and a
\* positive K the sleep doubles after every K sleeping polls, capped at the
\* ceiling; with a non-positive ceiling or K it never changes.
C30_SleepBackoffExact ==
    /\ dma_poll_sleep_us <= 0 => sleeps = <<>>
    /\ dma_poll_sleep_us > 0
          => ( /\ spins = 0
               /\ sleeps # <<>> => sleeps[1] = FirstSleep
               /\ \A n \in 1..(Len(sleeps) - 1) :
                     sleeps[n + 1] =
                        IF /\ dma_poll_sleep_max_us > 0
                           /\ dma_poll_backoff_polls > 0
                           /\ n % dma_poll_backoff_polls = 0
                        THEN Min(2 * sleeps[n], dma_poll_sleep_max_us)
                        ELSE sleeps[n] )

\* the sleep was doubled from the initial value until it reached the ceiling
C30_Witness ==
    /\ Len(sleeps) >= 4
    /\ sleeps[1] = dma_poll_sleep_us
    /\ sleeps[1] < sleeps[Len(sleeps)]
    /\ sleeps[Len(sleeps)] = dma_poll_sleep_max_us
    /\ dma_poll_backoff_polls > 1

(***************************************************************************)
(* Properties of the capture loop                                          *)
(***************************************************************************)
\* C21: every run of frame_release_notify for a buffer the renderer accepted
\* frees the slot of that buffer's hand-out and adds exactly one to
\* released_frames; no hand-out is released by two runs; every buffer pushed
\* is either still held by the renderer or was released by one run; and
\* released_frames counts exactly the runs that freed a slot.
C21_CallbackReleasesOnce ==
    /\ \A n \in DOMAIN cb_log :
          cb_log[n].ok => (cb_log[n].eff /\ cb_log[n].inc = 1)
    /\ \A m, n \in DOMAIN cb_log :
          cb_log[m].ticket = cb_log[n].ticket => m = n
    /\ pushed_frames =
          Cardinality({b \in in_flight : b.ok})
              + Cardinality({n \in DOMAIN cb_log : cb_log[n].ok})
    /\ released_frames = Cardinality({n \in DOMAIN cb_log : cb_log[n].eff})

\* two pushed buffers were released by their callbacks
C21_Witness ==
    /\ Len(cb_log) >= 2
    /\ \A n \in DOMAIN cb_log : cb_log[n].ok
    /\ released_frames >= 2
    /\ pushed_frames > released_frames

\* C22: after a refused push the slot of the ticket is free, and every slot
\* still in use is the slot of a buffer the renderer accepted and still
\* holds, whose callback will free it.
C22_PushFailureFreesSlot ==
    fault = "push" =>
        /\ ticket.idx \in SlotIdx
        /\ ~slots[ticket.idx].in_use
        /\ \A i \in SlotIdx :
              slots[i].in_use =>
                  \E b \in in_flight : b.ok /\ b.ticket = TicketOf(slots, i)

\* a push was refused, the renderer has not yet dropped the refused buffer,
\* and it still holds an earlier one
C22_Witness ==
    /\ fault = "push"
    /\ \E b \in in_flight : ~b.ok /\ b.ticket = ticket
    /\ \E b \in in_flight : b.ok

\* C23: once a transfer has failed, an acquire has timed out or a push was
\* refused, main is out of the loop, and from then on no transfer is
\* triggered, no frame is captured and no buffer is pushed.
C23_FaultTerminatesLoop ==
    /\ [](fault \in {"dma", "acquire", "push"} => loop_pc \in {"out", "done"})
    /\ [][(fault \in {"dma", "acquire", "push"}) =>
             (/\ dma_triggers' = dma_triggers
              /\ captured_frames' = captured_frames
              /\ pushed_frames' = pushed_frames
              /\ in_flight' \subseteq in_flight
              /\ fault' = fault)]_vars

\* the loop ended on a slot-acquire timeout after a frame had been pushed
C23_Witness ==
    /\ fault = "acquire"
    /\ slot_wait_timeout_count = 1
    /\ pushed_frames >= 1
    /\ loop_pc = "done"

\* C24 as stated, for the pool wait: a wake-up of the wait in
\* acquire_free_slot at which shutdown has been requested is not followed by
\* another park.
C24_NoParkAfterStopSeen == ~(loop_pc = "wait" /\ stop_at_wake)

\* fpga_lpr_display.c parked again although g_stop was set at the wake-up
C24_Witness ==
    /\ program = "lpr"
    /\ loop_pc = "wait"
    /\ stop_at_wake
    /\ g_stop
    /\ running

\* C25: in zero-copy mode the pool has one slot, and no transfer is triggered
\* while the renderer holds a buffer.
C25_ZeroCopySerializes ==
    /\ [](zero_copy_mode => slot_count = 1)
    /\ [][(zero_copy_mode /\ dma_triggers' # dma_triggers) => in_flight = {}]_vars

\* a second transfer was triggered after the first buffer had been released
C25_Witness ==
    /\ zero_copy_mode
    /\ dma_triggers >= 2
    /\ released_frames >= 1
    /\ loop_pc = "build"

\* C26: when the device reports a geometry other than 1280x720 with 2 bytes
\* per pixel (2 or 4 after the format fix-up in part_003), startup fails: the
\* pool is never sized, the loop is never entered and no transfer is made.
C26_GeometryMismatchIsFatal ==
    LET mismatch ==
            \/ info.frame_width # FPGA_FRAME_WIDTH
            \/ info.frame_height # FPGA_FRAME_HEIGHT
            \/ program = "lpr" /\ info.frame_bpp # FPGA_FRAME_BPP_BGR565
            \/ program = "display" /\ DerivedBpp(info) \notin {2, 4}
    IN  mismatch =>
            /\ loop_pc \in {"init", "out", "done"}
            /\ slot_count = 0
            /\ dma_triggers = 0
            /\ captured_frames = 0
            /\ pushed_frames = 0

\* the device reported another resolution and the program has ended
C26_Witness ==
    /\ info.frame_height # FPGA_FRAME_HEIGHT
    /\ loop_pc = "done"
    /\ dma_triggers = 0

\* C31: a poll whose sentinel is never overwritten ends with -ETIMEDOUT, with
\* a sleeping and with a spinning configuration alike; -ETIMEDOUT is returned
\* only after the deadline has passed, and no pass is made after it.
C31_PollBoundedByDeadline ==
    /\ <>(~poll_pending \/ poll_ret = "ETIMEDOUT")
    /\ [](poll_ret = "ETIMEDOUT" => (poll_pending /\ jiffies > deadline))
    /\ [][(jiffies > deadline /\ poll_pc = "poll")
             => (sleeps' = sleeps /\ spins' = spins)]_vars

\* a busy-spinning poll timed out
C31_Witness ==
    /\ poll_ret = "ETIMEDOUT"
    /\ dma_poll_sleep_us <= 0
    /\ spins > 0
    /\ dma_timeout_jiffies > 0

\* C32: for every chunk the command register is written after both address
\* registers have been written with the chunk's destination address, and the
\* command word carries the chunk's length in DWORDs minus 1 in bits [9:0],
\* with bit 16 and bit 24 set.
C32_CommandWordAfterAddress ==
    \A k \in DOMAIN chunks :
        LET ch == chunks[k]
            w == ch.regs
            cmdAt == {i \in DOMAIN w : w[i].reg = BAR1_DMA_CMD_REG}
            loAt == {i \in DOMAIN w : w[i].reg = BAR1_DMA_L_ADDR}
            hiAt == {i \in DOMAIN w : w[i].reg = BAR1_DMA_H_ADDR}
        IN  /\ Cardinality(cmdAt) = 1 /\ loAt # {} /\ hiAt # {}
            /\ \A i \in cmdAt :
                  /\ \A j \in loAt \cup hiAt : j < i
                  /\ w[i].val % 1024 = ((ch.len + 3) \div 4) - 1
                  /\ (w[i].val \div (2 ^ 16)) % 2 = 1
                  /\ (w[i].val \div (2 ^ 24)) % 2 = 1
            /\ \A j \in loAt : \A h \in hiAt :
                  (w[h].val * 65536) * 65536 + w[j].val = ch.addr

C32_Witness ==
    /\ Len(chunks) >= 2
    /\ \E k \in DOMAIN chunks :
          chunks[k].len % 4 # 0 /\ chunks[k].addr # dma_handle
    /\ \E k \in DOMAIN chunks : chunks[k].len = DMA_MAX_LEN_BYTES
\* C38: for every emitted chunk the number of bytes the device is commanded
\* to write, 4 times the DWORD count of the command word (the length field
\* plus 1), equals the chunk's byte length, so that the commanded range ends
\* inside the requested transfer range.
C38_CommandedBytesEqualChunkLength ==
    \A k \in DOMAIN chunks :
        /\ 4 * (LenField(chunks[k].cmd) + 1) = chunks[k].len
        /\ chunks[k].off + 4 * (LenField(chunks[k].cmd) + 1) <= dma_size

\* a last chunk of 1..3 bytes after a full chunk: the device is commanded to
\* write a whole DWORD, past the end of the requested range
C38_Witness ==
    /\ Len(chunks) >= 2
    /\ dma_handle = DmaBase
    /\ LET ch == chunks[Len(chunks)] IN
         /\ ch.len % 4 # 0
         /\ 4 * (LenField(ch.cmd) + 1) > ch.len
         /\ ch.off + 4 * (LenField(ch.cmd) + 1) > dma_size
\* the ticket of the release made by the step is stale before the step: its
\* slot is not in use or carries another generation
StaleBeforeRelease ==
    /\ last_op'.op = "release"
    /\ LET t == handouts[last_op'.k] IN
         \/ ~slots[t.idx].in_use
         \/ slots[t.idx].generation # t.generation

\* C33 as stated: every stale-ticket release increments a diagnostic count of
\* the context and changes nothing else.
C33_StaleReleaseCounted ==
    [][ StaleBeforeRelease
        => ( /\ \/ released_frames' = released_frames + 1
                \/ slot_wait_timeout_count' = slot_wait_timeout_count + 1
             /\ slots' = slots ) ]_vars

\* C33: a stale-ticket release (generation mismatch or slot not in use) is not
\* an error and changes nothing: no slot, no counter of the context, and no
\* signal on the pool condition variable.
C33_StaleReleaseChangesNothing ==
    [][ StaleBeforeRelease
        => ( /\ slots' = slots
             /\ released_frames' = released_frames
             /\ slot_wait_timeout_count' = slot_wait_timeout_count
             /\ cond_signalled' = cond_signalled
             /\ last_ret' = last_ret ) ]_vars

\* a ticket was released again while its slot is free, after counted releases
C33_Witness ==
    /\ last_op.op = "release"
    /\ last_op.again
    /\ ~slots[LastReleased.idx].in_use
    /\ released_frames > 0
    /\ acq_pc = "wait"
\* C34: after a push failure the capture program reports a failure to its
\* caller: main returns a non-zero status, whereas a clean shutdown (a signal
\* with no failure) returns 0.
C34_PushFailureReportedUpward ==
    /\ (loop_pc = "done" /\ fault = "push") => ret # 0
    /\ (loop_pc = "done" /\ fault = "none" /\ g_stop /\ dma_triggers > 0) => ret = 0

\* main has returned after a refused push with the status of a clean shutdown
C34_Witness ==
    /\ loop_pc = "done"
    /\ fault = "push"
    /\ ~g_stop
    /\ pushed_frames > 0
    /\ ret = 0

\* C39: at every point the released-frame counter is at most the pushed-frame
\* counter and the pushed-frame counter is at most the captured-frame counter.
C39_ReleasedLePushedLeCaptured ==
    /\ released_frames <= pushed_frames
    /\ pushed_frames <= captured_frames

\* the renderer refused the first buffer and dropped it inside the push call:
\* frame_release_notify counted a release of a frame that was never counted
\* as pushed
C39_Witness ==
    /\ fault = "push"
    /\ pushed_frames = 0
    /\ released_frames = 1
    /\ captured_frames = 1
    /\ Len(cb_log) = 1 /\ cb_log[1].inc = 1 /\ ~cb_log[1].ok

\* C40: while the running flag stays set, every frame written into the mailbox
\* is eventually taken by the worker or overwritten by a newer frame; the
\* worker is parked with the has-new flag set only while a wake-up is pending
\* for it, and it does not stay parked then.
C40_NoLostWakeup ==
    /\ \A f \in 1..MaxFrames :
          (running /\ infer_has_new /\ infer_latest_raw = f)
              ~> ( \/ ~running
                   \/ f \in overwritten
                   \/ \E i \in DOMAIN processed : processed[i].frame = f )
    /\ (worker_pc = "wait" /\ infer_has_new) ~> (worker_pc # "wait")
    /\ []((worker_pc = "wait" /\ infer_has_new) => inf_woken)

\* a frame arrived while the worker was parked after an earlier take, with the
\* running flag set: the wake-up is pending
C40_Witness ==
    /\ running /\ ~g_stop
    /\ worker_pc = "wait"
    /\ infer_has_new
    /\ inf_woken
    /\ Len(processed) >= 1
    /\ overwritten # {}

(***************************************************************************)
(* Properties of the READ_FRAME ioctl                                      *)
(***************************************************************************)
\* C35: a READ_FRAME whose explicit or defaulted size exceeds the size of the
\* DMA buffer returns -EINVAL; the step that refuses it writes no sentinel and
\* no register and does not touch the DMA lock, and the call has done none of
\* these before.
C35_OversizeRefusedBeforeLock ==
    /\ [](\A p \in Callers :
            (io_pc[p] \notin {"entry", "off"}
                /\ RequestedSize(transfer_size[p], dev_pixel_format) > DMA_BUF_SIZE)
            => ( /\ io_ret[p] \in {"EINVAL", "EFAULT"}
                 /\ io_pc[p] = "done"
                 /\ ~io_locked[p]
                 /\ \A i \in DOMAIN hw_runs : hw_runs[i].by # p
                 /\ \A x \in io_buf : x.tag.by # p ))
    /\ [](\A p \in Callers :
            io_ret[p] = "EINVAL"
            => RequestedSize(transfer_size[p], dev_pixel_format) > DMA_BUF_SIZE)
    /\ [][\A p \in Callers :
            (io_ret'[p] = "EINVAL" /\ io_ret[p] # "EINVAL")
            => (io_buf' = io_buf /\ hw_runs' = hw_runs /\ dma_lock' = dma_lock)]_vars

\* an oversized call was refused while another call held the lock in the
\* middle of its transfer
C35_Witness ==
    \E p, q \in Callers :
        /\ io_ret[p] = "EINVAL"
        /\ transfer_size[p] = DMA_BUF_SIZE + 1
        /\ dma_lock = q
        /\ io_pc[q] = "poll"
        /\ hw_runs # <<>> /\ hw_runs[1].n >= 2

\* C36: the chunk commands of two READ_FRAME calls never interleave: the
\* commands of one call form one run of the command log, a call issues
\* commands only while it holds the DMA lock, and while one call is inside its
\* transfer no other call is.
C36_TransfersSerialised ==
    /\ \A i, j \in DOMAIN hw_runs : i # j => hw_runs[i].by # hw_runs[j].by
    /\ \A p \in Callers : io_pc[p] \in {"chunk", "poll", "unlock"} => dma_lock = p

\* two calls of more than one chunk each have both finished their transfer
C36_Witness ==
    /\ Len(hw_runs) = 2
    /\ hw_runs[1].n >= 2 /\ hw_runs[2].n >= 2
    /\ \A p \in Callers : p <= 2 => io_pc[p] = "done" /\ io_ret[p] = "0"

\* C37: the frame bytes a successful READ_FRAME copies to its caller are the
\* bytes the device wrote for that call's own transfer.
C37_CopyIsOwnTransfer ==
    \A p \in Callers :
        (io_pc[p] = "done" /\ io_ret[p] = "0" /\ user_buf[p])
            => io_copied[p] = {DataOf(p)}

\* a call returned 0 after copying bytes that another call's transfer had
\* written in the meantime, a sentinel among them
C37_Witness ==
    \E p, q \in Callers :
        /\ p # q
        /\ io_pc[p] = "done" /\ io_ret[p] = "0" /\ user_buf[p]
        /\ SentinelOf(q) \in io_copied[p]
        /\ DataOf(q) \in io_copied[p]
====
